---- MODULE Spec2Model ----
(***************************************************************************)
(* The exoscale_security_group_rules resource of the Exoscale Terraform    *)
(* provider: rule identifiers (ruleToID), template expansion               *)
(* (securityGroupRulesToAdd, preparePorts), reconciliation (readRules) and *)
(* the Create and Read handlers, against a backing security group.         *)
(*                                                                         *)
(* Go statements that bind a local and then use it several times are       *)
(* written as an operator applied to the bound value: the operator's       *)
(* parameter is the local.                                                 *)
(***************************************************************************)
EXTENDS Integers, Sequences, FiniteSets, TLC

VARIABLES
    d,        \* schema.ResourceData of the resource: Id, parent group, ingress, egress
    config,   \* the declared configuration the resource was created from
    sgRules,  \* securityGroup.Rules: the rules the backing service holds
    nextID,   \* the backing service's rule-ID counter
    registry, \* the group registry of the backing service: group ID -> name
    op,       \* the last handler run: its name, error, and the calls it made
    fn,       \* pure-function harness: the function applied, its input, its output
    updates   \* how many times Update has run

vars == <<d, config, sgRules, nextID, registry, op, fn, updates>>

-----------------------------------------------------------------------------
(* Pointers of the Go structs: <<>> is nil, <<v>> points to v.             *)
Nil == <<>>
Ptr(v) == <<v>>
Deref(p) == p[1]

(* A set listed in one fixed order (schema.Set.List orders by hash code).  *)
RECURSIVE SetToSeq(_)
pickFirst(S, x) == <<x>> \o SetToSeq(S \ {x})
SetToSeq(S) == IF S = {} THEN <<>> ELSE pickFirst(S, CHOOSE y \in S : TRUE)

RECURSIVE Flatten(_)
Flatten(ss) == IF Len(ss) = 0 THEN <<>> ELSE Head(ss) \o Flatten(Tail(ss))

Min(a, b) == IF a < b THEN a ELSE b
Max(a, b) == IF a > b THEN a ELSE b

-----------------------------------------------------------------------------
(* strings, strconv, fmt                                                   *)
CharAt(s, i) == SubSeq(s, i, i)

(* unicode.ToLower / ToUpper on the ASCII letters.                         *)
LowerChar(c) ==
    CASE c = "A" -> "a" [] c = "B" -> "b" [] c = "C" -> "c" [] c = "D" -> "d"
      [] c = "E" -> "e" [] c = "F" -> "f" [] c = "G" -> "g" [] c = "H" -> "h"
      [] c = "I" -> "i" [] c = "J" -> "j" [] c = "K" -> "k" [] c = "L" -> "l"
      [] c = "M" -> "m" [] c = "N" -> "n" [] c = "O" -> "o" [] c = "P" -> "p"
      [] c = "Q" -> "q" [] c = "R" -> "r" [] c = "S" -> "s" [] c = "T" -> "t"
      [] c = "U" -> "u" [] c = "V" -> "v" [] c = "W" -> "w" [] c = "X" -> "x"
      [] c = "Y" -> "y" [] c = "Z" -> "z"
      [] OTHER -> c

UpperChar(c) ==
    CASE c = "a" -> "A" [] c = "b" -> "B" [] c = "c" -> "C" [] c = "d" -> "D"
      [] c = "e" -> "E" [] c = "f" -> "F" [] c = "g" -> "G" [] c = "h" -> "H"
      [] c = "i" -> "I" [] c = "j" -> "J" [] c = "k" -> "K" [] c = "l" -> "L"
      [] c = "m" -> "M" [] c = "n" -> "N" [] c = "o" -> "O" [] c = "p" -> "P"
      [] c = "q" -> "Q" [] c = "r" -> "R" [] c = "s" -> "S" [] c = "t" -> "T"
      [] c = "u" -> "U" [] c = "v" -> "V" [] c = "w" -> "W" [] c = "x" -> "X"
      [] c = "y" -> "Y" [] c = "z" -> "Z"
      [] OTHER -> c

RECURSIVE ToLower(_)
ToLower(s) == IF s = "" THEN "" ELSE LowerChar(Head(s)) \o ToLower(Tail(s))

RECURSIVE ToUpper(_)
ToUpper(s) == IF s = "" THEN "" ELSE UpperChar(Head(s)) \o ToUpper(Tail(s))

HasPrefix(s, p) == Len(s) >= Len(p) /\ SubSeq(s, 1, Len(p)) = p

RECURSIVE ReplaceAll(_, _, _)
ReplaceAll(s, old, new) ==
    IF s = "" THEN ""
    ELSE IF HasPrefix(s, old)
         THEN new \o ReplaceAll(SubSeq(s, Len(old) + 1, Len(s)), old, new)
         ELSE Head(s) \o ReplaceAll(Tail(s), old, new)

(* Position of the first occurrence of the one-character sep at or after   *)
(* position i, 0 if there is none.                                         *)
RECURSIVE IndexFrom(_, _, _)
IndexFrom(s, sep, i) ==
    IF i > Len(s) THEN 0
    ELSE IF CharAt(s, i) = sep THEN i ELSE IndexFrom(s, sep, i + 1)

RECURSIVE Split(_, _)
splitAt(s, sep, i) ==
    IF i = 0 THEN <<s>>
    ELSE <<SubSeq(s, 1, i - 1)>> \o Split(SubSeq(s, i + 1, Len(s)), sep)
Split(s, sep) == splitAt(s, sep, IndexFrom(s, sep, 1))

(* strings.SplitN(s, sep, 2)                                               *)
splitN2At(s, i) ==
    IF i = 0 THEN <<s>> ELSE <<SubSeq(s, 1, i - 1), SubSeq(s, i + 1, Len(s))>>
SplitN2(s, sep) == splitN2At(s, IndexFrom(s, sep, 1))

DigitValue(c) ==
    CASE c = "0" -> 0 [] c = "1" -> 1 [] c = "2" -> 2 [] c = "3" -> 3 [] c = "4" -> 4
      [] c = "5" -> 5 [] c = "6" -> 6 [] c = "7" -> 7 [] c = "8" -> 8 [] c = "9" -> 9
      [] OTHER -> -1

IsDigits(s) == s # "" /\ \A i \in 1..Len(s) : DigitValue(CharAt(s, i)) >= 0

RECURSIVE DigitsValue(_, _)
DigitsValue(s, acc) ==
    IF s = "" THEN acc ELSE DigitsValue(Tail(s), acc * 10 + DigitValue(Head(s)))

(* strconv.ParseUint(s, 10, 16) with the error dropped: 0 on a syntax      *)
(* error, the largest uint16 on a range error.                             *)
MaxUint16 == 65535
ParseUint16(s) == IF ~IsDigits(s) THEN 0 ELSE Min(DigitsValue(s, 0), MaxUint16)

Itoa(n) == ToString(n)

-----------------------------------------------------------------------------
(* net.ParseCIDR and net.IPNet.String for IPv4: the address is masked to   *)
(* the network, so "10.1.2.3/8" parses to the network 10.0.0.0/8.          *)
Pow2(n) == CASE n = 0 -> 1 [] n = 1 -> 2 [] n = 2 -> 4 [] n = 3 -> 8 [] n = 4 -> 16
             [] n = 5 -> 32 [] n = 6 -> 64 [] n = 7 -> 128 [] OTHER -> 256

(* Number of mask bits that fall into octet i (1..4) of a /bits mask.      *)
OctetBits(bits, i) == Min(8, Max(0, bits - 8 * (i - 1)))

MaskOctet(octet, bits, i) == octet - (octet % Pow2(8 - OctetBits(bits, i)))

errCIDR(s) == [err |-> "invalid CIDR address: " \o s, network |-> Nil]

maskedNetwork(octs, bits) ==
    [err |-> "",
     network |-> Ptr([ip |-> [i \in 1..4 |-> MaskOctet(DigitsValue(octs[i], 0), bits, i)],
                      bits |-> bits])]

parseCIDROctets(s, octs, bitsText) ==
    IF /\ Len(octs) = 4
       /\ \A i \in 1..4 : IsDigits(octs[i]) /\ DigitsValue(octs[i], 0) <= 255
       /\ IsDigits(bitsText) /\ DigitsValue(bitsText, 0) <= 32
    THEN maskedNetwork(octs, DigitsValue(bitsText, 0))
    ELSE errCIDR(s)

parseCIDRParts(s, parts) ==
    IF Len(parts) = 2 THEN parseCIDROctets(s, Split(parts[1], "."), parts[2])
    ELSE errCIDR(s)

ParseCIDR(s) == parseCIDRParts(s, Split(s, "/"))

NetworkString(n) ==
    Itoa(n.ip[1]) \o "." \o Itoa(n.ip[2]) \o "." \o Itoa(n.ip[3]) \o "."
        \o Itoa(n.ip[4]) \o "/" \o Itoa(n.bits)

-----------------------------------------------------------------------------
(* The group registry (client.GetSecurityGroup, client.FindSecurityGroup). *)
(* failGet / failFind are the IDs / names whose lookup fails during the    *)
(* handler's run.                                                          *)
GroupIDs == {"g1"}

ErrNotFound == "resource not found"

GetSecurityGroup(reg, failGet, id) ==
    IF id \in failGet \/ id \notin DOMAIN reg
    THEN [err |-> ErrNotFound, group |-> Nil]
    ELSE [err |-> "", group |-> Ptr([ID |-> id, Name |-> reg[id]])]

foundGroup(reg, failFind, x, hits) ==
    IF x \in failFind \/ hits = {}
    THEN [err |-> ErrNotFound, group |-> Nil]
    ELSE [err |-> "", group |-> Ptr([ID |-> CHOOSE h \in hits : TRUE,
                                     Name |-> reg[CHOOSE h \in hits : TRUE]])]

FindSecurityGroup(reg, failFind, x) ==
    foundGroup(reg, failFind, x, {g \in DOMAIN reg : g = x \/ reg[g] = x})

-----------------------------------------------------------------------------
(* egoscale.SecurityGroupRule                                              *)
EmptyRule ==
    [ID |-> Nil, Description |-> Nil, Protocol |-> Nil, FlowDirection |-> Nil,
     Network |-> Nil, SecurityGroupID |-> Nil,
     StartPort |-> Nil, EndPort |-> Nil, ICMPType |-> Nil, ICMPCode |-> Nil]

nonEmptyStringPtr(s) == IF s = "" THEN Nil ELSE Ptr(s)
defaultString(p, def) == IF p = Nil THEN def ELSE Deref(p)

-----------------------------------------------------------------------------
(* ruleToID (lines 763-812): the composite identifier of a backing rule.   *)
(* A faulty ruleToIDNamed, which C8 must tell apart: the key also counts   *)
(* the rules the group holds when it is built.                             *)
ruleToIDNamedCounted(r, protocol, name) ==
    [id |-> Deref(r.ID) \o "_" \o Deref(r.Protocol) \o "_" \o name \o "#"
              \o Itoa(Cardinality(sgRules)),
     err |-> ""]

ruleToIDNamed(r, protocol, name) ==
    IF protocol = "tcp" \/ protocol = "udp"
    THEN [id |-> Deref(r.ID) \o "_" \o Deref(r.Protocol) \o "_" \o name \o "_"
                   \o Itoa(Deref(r.StartPort)) \o "-" \o Itoa(Deref(r.EndPort)),
          err |-> ""]
    ELSE [id |-> Deref(r.ID) \o "_" \o Deref(r.Protocol) \o "_" \o name, err |-> ""]

ruleToIDGroup(r, protocol, g) ==
    IF g.err # ""
    THEN [id |-> "", err |-> "unable to retrieve Security Group: " \o g.err]
    ELSE ruleToIDNamed(r, protocol, Deref(g.group).Name)

(* A faulty ruleToIDProtocol, which C11 must tell apart: the ICMP key      *)
(* carries the protocol as the rule spells it.                             *)
ruleToIDProtocolRaw(reg, failGet, r, protocol) ==
    IF HasPrefix(protocol, "icmp")
    THEN [id |-> Deref(r.ID) \o "_" \o Deref(r.Protocol) \o "_"
                   \o Itoa(Deref(r.ICMPType)) \o ":" \o Itoa(Deref(r.ICMPCode)),
          err |-> ""]
    ELSE IF r.Network # Nil
         THEN ruleToIDNamed(r, protocol, NetworkString(Deref(r.Network)))
         ELSE ruleToIDGroup(r, protocol,
                            GetSecurityGroup(reg, failGet, Deref(r.SecurityGroupID)))

ruleToIDProtocol(reg, failGet, r, protocol) ==
    IF HasPrefix(protocol, "icmp")
    THEN [id |-> Deref(r.ID) \o "_" \o protocol \o "_" \o Itoa(Deref(r.ICMPType))
                   \o ":" \o Itoa(Deref(r.ICMPCode)),
          err |-> ""]
    ELSE IF r.Network # Nil
         THEN ruleToIDNamed(r, protocol, NetworkString(Deref(r.Network)))
         ELSE ruleToIDGroup(r, protocol,
                            GetSecurityGroup(reg, failGet, Deref(r.SecurityGroupID)))

ruleToID(reg, failGet, securityGroupRule) ==
    ruleToIDProtocol(reg, failGet, securityGroupRule,
                     ToLower(Deref(securityGroupRule.Protocol)))

-----------------------------------------------------------------------------
(* preparePorts (lines 816-834): "START[-END]" strings to <<start, end>>.  *)
portCoupleOf(ps) ==
    <<ParseUint16(ps[1]), IF Len(ps) = 2 THEN ParseUint16(ps[2]) ELSE ParseUint16(ps[1])>>

portCouple(v) == portCoupleOf(Split(v, "-"))

portCouples(l) == [i \in 1..Len(l) |-> portCouple(l[i])]

(* A faulty preparePorts, which C5 must tell apart: entries of the same    *)
(* range are merged.                                                       *)
preparePortsMerged(values) == SetToSeq({portCouple(v) : v \in values})

preparePorts(values) == portCouples(SetToSeq(values))

-----------------------------------------------------------------------------
(* securityGroupRulesToAdd (lines 853-916): a block to the rules to add.   *)
portRules(securityGroupRule, protocol, ports) ==
    [i \in 1..Len(ports) |->
        [securityGroupRule EXCEPT !.Protocol = Ptr(protocol),
                                  !.StartPort = Ptr(ports[i][1]),
                                  !.EndPort = Ptr(ports[i][2])]]

(* A faulty baseRulesFor, which C6 must tell apart: whatever the protocol, *)
(* one rule per port entry, and one rule if there are no ports.            *)
baseRulesPerPort(rule, protocol, securityGroupRule) ==
    IF rule.ports = {} THEN <<[securityGroupRule EXCEPT !.Protocol = Ptr(protocol)]>>
    ELSE portRules(securityGroupRule, protocol, preparePorts(rule.ports))

baseRulesFor(rule, protocol, securityGroupRule) ==
    IF HasPrefix(protocol, "icmp")
    THEN <<[securityGroupRule EXCEPT !.Protocol = Ptr(protocol),
                                     !.ICMPCode = Ptr(rule.icmp_code),
                                     !.ICMPType = Ptr(rule.icmp_type)]>>
    ELSE IF protocol = "tcp" \/ protocol = "udp"
         THEN portRules(securityGroupRule, protocol, preparePorts(rule.ports))
         ELSE <<[securityGroupRule EXCEPT !.Protocol = Ptr(protocol)]>>

baseRulesOf(rule) ==
    baseRulesFor(rule, ToLower(rule.protocol),
                 [EmptyRule EXCEPT !.Description = nonEmptyStringPtr(rule.description)])

firstBad(results) ==
    CHOOSE j \in 1..Len(results) :
        results[j].err # "" /\ \A k \in 1..(j - 1) : results[k].err = ""

expandedRules(baseRules, groups, parsed, found) ==
    IF Len(baseRules) > 0 /\ \E j \in 1..Len(parsed) : parsed[j].err # ""
    THEN [rules |-> <<>>, err |-> parsed[firstBad(parsed)].err]
    ELSE IF Len(baseRules) > 0 /\ \E j \in 1..Len(found) : found[j].err # ""
    THEN [rules |-> <<>>,
          err |-> "unable to retrieve Security Group " \o groups[firstBad(found)]
                     \o ": " \o found[firstBad(found)].err]
    ELSE [rules |->
             Flatten([i \in 1..Len(baseRules) |->
                        [j \in 1..Len(parsed) |->
                           [baseRules[i] EXCEPT !.Network = parsed[j].network]]])
             \o Flatten([i \in 1..Len(baseRules) |->
                           [j \in 1..Len(found) |->
                              [baseRules[i] EXCEPT !.SecurityGroupID =
                                                     Ptr(Deref(found[j].group).ID)]]]),
          err |-> ""]

expandPeers(reg, failFind, baseRules, cidrs, groups) ==
    expandedRules(baseRules, groups,
                  [j \in 1..Len(cidrs) |-> ParseCIDR(cidrs[j])],
                  [j \in 1..Len(groups) |-> FindSecurityGroup(reg, failFind, groups[j])])

securityGroupRulesToAdd(reg, failFind, rule) ==
    expandPeers(reg, failFind, baseRulesOf(rule), SetToSeq(rule.cidr_list),
                SetToSeq(rule.user_security_group_list))

(* A faulty securityGroupRulesToRemove, which C14 must tell apart: the     *)
(* whole identifier is taken for the backing ID.                           *)
securityGroupRulesToRemoveWhole(rule) ==
    [identifier \in rule.ids |-> [EmptyRule EXCEPT !.ID = Ptr(identifier)]]

(* securityGroupRulesToRemove (lines 838-849): one minimal rule per id.    *)
securityGroupRulesToRemove(rule) ==
    [identifier \in rule.ids |->
        [EmptyRule EXCEPT !.ID = Ptr(SplitN2(identifier, "_")[1])]]

-----------------------------------------------------------------------------
(* schema.Set of rule blocks. The element hash covers the Optional         *)
(* attributes only, so the Computed "ids" takes no part in it.             *)
hashKey(rule) == [rule EXCEPT !.ids = {}]

SetRemove(rules, r) == {x \in rules : hashKey(x) # hashKey(r)}

SetAdd(rules, r) ==
    IF \E x \in rules : hashKey(x) = hashKey(r) THEN rules ELSE rules \cup {r}

-----------------------------------------------------------------------------
(* readRules (lines 667-761): the reconciliation of the stored blocks with *)
(* the rules the backing group holds.                                      *)

(* The port string recorded for a backing rule (lines 728-739).            *)
portText(startPort, endPort) ==
    IF startPort = endPort THEN Itoa(startPort)
    ELSE Itoa(startPort) \o "-" \o Itoa(endPort)

portString(r) ==
    portText(IF r.StartPort # Nil THEN Deref(r.StartPort) ELSE 0,
             IF r.EndPort # Nil THEN Deref(r.EndPort) ELSE 0)

(* A faulty readFound, which C19 must tell apart: the upper-cased protocol *)
(* is stored as it is, "ICMPV6" included.                                  *)
readFoundUpper(acc, r, protocol, g) ==
    IF g.err # ""
    THEN [acc EXCEPT !.err = "unable to retrieve Security Group: " \o g.err]
    ELSE [acc EXCEPT
            !.actualLen = @ + 1,
            !.description = defaultString(r.Description, ""),
            !.cidrList = IF r.Network # Nil
                         THEN @ \cup {NetworkString(Deref(r.Network))} ELSE @,
            !.userSecurityGroupList = IF r.SecurityGroupID # Nil
                                      THEN @ \cup {Deref(g.group).Name} ELSE @,
            !.protocol = protocol,
            !.icmp_code = IF HasPrefix(protocol, "ICMP") THEN Deref(r.ICMPCode) ELSE @,
            !.icmp_type = IF HasPrefix(protocol, "ICMP") THEN Deref(r.ICMPType) ELSE @,
            !.ports = IF protocol = "TCP" \/ protocol = "UDP"
                      THEN @ \cup {portString(r)} ELSE @]

(* Lines 706-740 for a rule r that ruleFunc found; g is the outcome of the *)
(* peer-group lookup of lines 715-721.                                     *)
readFound(acc, r, protocol, g) ==
    IF g.err # ""
    THEN [acc EXCEPT !.err = "unable to retrieve Security Group: " \o g.err]
    ELSE [acc EXCEPT
            !.actualLen = @ + 1,
            !.description = defaultString(r.Description, ""),
            !.cidrList = IF r.Network # Nil
                         THEN @ \cup {NetworkString(Deref(r.Network))} ELSE @,
            !.userSecurityGroupList = IF r.SecurityGroupID # Nil
                                      THEN @ \cup {Deref(g.group).Name} ELSE @,
            !.protocol = IF HasPrefix(protocol, "ICMP")
                         THEN ReplaceAll(protocol, "V6", "v6") ELSE protocol,
            !.icmp_code = IF HasPrefix(protocol, "ICMP") THEN Deref(r.ICMPCode) ELSE @,
            !.icmp_type = IF HasPrefix(protocol, "ICMP") THEN Deref(r.ICMPType) ELSE @,
            !.ports = IF protocol = "TCP" \/ protocol = "UDP"
                      THEN @ \cup {portString(r)} ELSE @]

readLookup(reg, failGet, acc, r) ==
    readFound(acc, r, ToUpper(Deref(r.Protocol)),
              IF r.SecurityGroupID # Nil
              THEN GetSecurityGroup(reg, failGet, Deref(r.SecurityGroupID))
              ELSE [err |-> "", group |-> Nil])

(* A faulty readRulesStep, which C12 must tell apart: an id that names no   *)
(* backing rule stays in ids.                                              *)
readRulesStepKept(reg, failGet, ruleFunc, acc, id) ==
    IF acc.err # "" \/ id \notin DOMAIN ruleFunc THEN acc
    ELSE readLookup(reg, failGet, acc, ruleFunc[id])

(* One turn of the loop over ids.List() (lines 700-741).                   *)
readRulesStep(reg, failGet, ruleFunc, acc, id) ==
    IF acc.err # "" THEN acc
    ELSE IF id \notin DOMAIN ruleFunc THEN [acc EXCEPT !.ids = @ \ {id}]
    ELSE readLookup(reg, failGet, acc, ruleFunc[id])

RECURSIVE readRulesWalk(_, _, _, _, _)
readRulesWalk(reg, failGet, ruleFunc, acc, idList) ==
    IF idList = <<>> THEN acc
    ELSE readRulesWalk(reg, failGet, ruleFunc,
                       readRulesStep(reg, failGet, ruleFunc, acc, Head(idList)),
                       Tail(idList))

(* A faulty reconciledPorts, which C4 must tell apart: the ports are never *)
(* emptied.                                                                *)
reconciledPortsKept(cidrLen, userSecurityGroupLen, portsLen, acc) == acc.ports

(* The ports readRules stores: emptied when the three lengths match the    *)
(* block's own and the number of rules found does not (lines 743-751).     *)
reconciledPorts(cidrLen, userSecurityGroupLen, portsLen, acc) ==
    IF /\ Cardinality(acc.cidrList) = cidrLen
       /\ Cardinality(acc.ports) = portsLen
       /\ Cardinality(acc.userSecurityGroupList) = userSecurityGroupLen
       /\ (cidrLen + userSecurityGroupLen) * portsLen # acc.actualLen
    THEN {}
    ELSE acc.ports

(* A faulty readStart, which C13 must tell apart: the observed sets start  *)
(* from the block's own instead of empty.                                  *)
readStartFromBlock(rule) ==
    [err |-> "", actualLen |-> 0, ids |-> rule.ids,
     cidrList |-> rule.cidr_list,
     userSecurityGroupList |-> rule.user_security_group_list,
     ports |-> rule.ports,
     protocol |-> rule.protocol, description |-> rule.description,
     icmp_code |-> rule.icmp_code, icmp_type |-> rule.icmp_type]

(* Lines 692-698: the locals of one block before the walk over its ids.    *)
readStart(rule) ==
    [err |-> "", actualLen |-> 0, ids |-> rule.ids,
     cidrList |-> {}, userSecurityGroupList |-> {}, ports |-> {},
     protocol |-> rule.protocol, description |-> rule.description,
     icmp_code |-> rule.icmp_code, icmp_type |-> rule.icmp_type]

(* Lines 743-756: the block as readRules stores it back.                   *)
reconciledRule(rule, acc) ==
    [err |-> acc.err,
     actualLen |-> acc.actualLen,
     rule |-> [protocol |-> acc.protocol,
               description |-> acc.description,
               icmp_code |-> acc.icmp_code,
               icmp_type |-> acc.icmp_type,
               ids |-> acc.ids,
               ports |-> reconciledPorts(Cardinality(rule.cidr_list),
                                         Cardinality(rule.user_security_group_list),
                                         Cardinality(rule.ports), acc),
               cidr_list |-> acc.cidrList,
               user_security_group_list |-> acc.userSecurityGroupList]]

(* The body of the loop over rules.List(), for one block.                  *)
readRule(reg, failGet, ruleFunc, rule) ==
    reconciledRule(rule, readRulesWalk(reg, failGet, ruleFunc, readStart(rule),
                                       SetToSeq(rule.ids)))

(* rules.Remove(r) ... rules.Add(rule) (lines 676, 757).                   *)
storeRule(st, r, res) ==
    IF res.err # "" THEN [st EXCEPT !.err = res.err]
    ELSE [st EXCEPT !.rules = SetAdd(SetRemove(@, r), res.rule)]

RECURSIVE readRulesLoop(_, _, _, _, _)
readRulesLoop(reg, failGet, ruleFunc, st, list) ==
    IF list = <<>> \/ st.err # "" THEN st
    ELSE readRulesLoop(reg, failGet, ruleFunc,
                       storeRule(st, Head(list), readRule(reg, failGet, ruleFunc, Head(list))),
                       Tail(list))

readRules(reg, failGet, rules, ruleFunc) ==
    readRulesLoop(reg, failGet, ruleFunc, [rules |-> rules, err |-> ""], SetToSeq(rules))

-----------------------------------------------------------------------------
(* The parent security group and the backing service's rule CRUD.          *)
ParentID == "sg"
ParentName == "parent"
ParentOutcomes == {"ok", "notfound", "error"}

(* client.CreateSecurityGroupRule: the service stores the rule under a     *)
(* fresh ID and returns it.                                                *)
CreateSecurityGroupRule(n, ruleToAdd) == [ruleToAdd EXCEPT !.ID = Ptr("r" \o Itoa(n))]

(* The lookup of the parent group by Create and Read (lines 371-379 and   *)
(* 465-473), by ID when one is given and by name otherwise, and what it    *)
(* reported.                                                               *)
parentLookup(data, parent) ==
    Ptr(<<"FindSecurityGroup",
          IF data.security_group_id # "" THEN data.security_group_id
          ELSE data.security_group,
          parent>>)

ErrValidation == "either security_group or security_group_id must be specified"
ErrAPI == "api error"

-----------------------------------------------------------------------------
(* resourceSecurityGroupRulesRead (lines 442-531).                         *)

(* ruleIDs[id] = i (line 489), or the return of lines 486-488.             *)
putRuleID(st, rule, res) ==
    IF res.err # "" THEN [st EXCEPT !.err = res.err]
    ELSE [st EXCEPT !.ids = [x \in DOMAIN @ \cup {res.id} |->
                                IF x = res.id THEN rule ELSE @[x]]]

RECURSIVE ruleIDsLoop(_, _, _, _)
ruleIDsLoop(reg, failGet, st, list) ==
    IF list = <<>> \/ st.err # "" THEN st
    ELSE ruleIDsLoop(reg, failGet,
                     putRuleID(st, Head(list), ruleToID(reg, failGet, Head(list))),
                     Tail(list))

(* d.Set(flowDirection, rules), or the return of lines 500-502.            *)
setDirection(st, flowDirection, res) ==
    IF res.err # "" THEN [st EXCEPT !.err = res.err]
    ELSE [st EXCEPT !.d[flowDirection] = res.rules]

readDirection(reg, failGet, ruleFunc, st, flowDirection) ==
    IF st.err # "" \/ st.d[flowDirection] = {} THEN st
    ELSE setDirection(st, flowDirection,
                      readRules(reg, failGet, st.d[flowDirection], ruleFunc))

readResult(e) == [d |-> e.d, err |-> e.err, idErr |-> "", lookup |-> e.lookup]

readWithRuleIDs(data, reg, failGet, ruleIDs) ==
    IF ruleIDs.err # ""
    THEN [d |-> data, err |-> ruleIDs.err, idErr |-> ruleIDs.err,
          lookup |-> parentLookup(data, "ok")]
    ELSE readResult(
             readDirection(reg, failGet, ruleIDs.ids,
                 readDirection(reg, failGet, ruleIDs.ids,
                               [d |-> data, err |-> "", lookup |-> parentLookup(data, "ok")],
                               "ingress"),
                 "egress"))

resourceSecurityGroupRulesRead(data, rules, reg, parent, failGet) ==
    IF data.security_group_id = "" /\ data.security_group = ""
    THEN [d |-> data, err |-> ErrValidation, idErr |-> "", lookup |-> Nil]
    ELSE IF parent = "notfound"
    THEN [d |-> [data EXCEPT !.Id = ""], err |-> "", idErr |-> "",
          lookup |-> parentLookup(data, parent)]
    ELSE IF parent = "error"
    THEN [d |-> data, err |-> ErrAPI, idErr |-> "", lookup |-> parentLookup(data, parent)]
    ELSE readWithRuleIDs(data, reg, failGet,
                         ruleIDsLoop(reg, failGet, [ids |-> <<>>, err |-> ""],
                                     SetToSeq(rules)))

-----------------------------------------------------------------------------
(* resourceSecurityGroupRulesCreate (lines 348-440).                       *)

(* Lines 423-427: the error of ruleToID is turned into a diagnostic that   *)
(* is dropped, and the id ruleToID returned is added to ids.               *)
addID(st, securityGroupRule, res) ==
    [st EXCEPT !.sgRules = @ \cup {securityGroupRule},
               !.nextID = @ + 1,
               !.nCreate = @ + 1,
               !.calls = Append(@, <<"createRule", Deref(securityGroupRule.ID)>>),
               !.idErr = IF res.err # "" THEN res.err ELSE @,
               !.ids = @ \cup {res.id},
               !.added = @ \cup {res.id}]

createdRule(reg, failGet, st, securityGroupRule) ==
    addID(st, securityGroupRule, ruleToID(reg, failGet, securityGroupRule))

(* The loop over rulesToAdd (lines 411-428): st carries the service's      *)
(* rules and ID counter, the block's ids, and what the handler has called. *)
RECURSIVE createLoop(_, _, _, _, _, _)
createLoop(reg, failGet, failCreateAt, flowDirection, st, rulesToAdd) ==
    IF rulesToAdd = <<>> \/ st.err # "" THEN st
    ELSE IF st.nCreate + 1 = failCreateAt
    THEN [st EXCEPT !.err = ErrAPI,
                    !.nCreate = @ + 1,
                    !.calls = Append(@, <<"createRule", "failed">>)]
    ELSE createLoop(reg, failGet, failCreateAt, flowDirection,
             createdRule(reg, failGet, st,
                 CreateSecurityGroupRule(st.nextID,
                     [Head(rulesToAdd) EXCEPT !.FlowDirection =
                                                 nonEmptyStringPtr(flowDirection)])),
             Tail(rulesToAdd))

(* The block with its ids, back in the set of its direction.               *)
storeBlock(st, flowDirection, r, rule, after) ==
    [after EXCEPT !.d[flowDirection] =
                     SetAdd(SetRemove(st.d[flowDirection], r),
                            [rule EXCEPT !.ids = after.ids])]

createRules(reg, failGet, failCreateAt, flowDirection, st, r, rule, rulesToAdd) ==
    IF rulesToAdd.err # "" THEN [st EXCEPT !.err = rulesToAdd.err]
    ELSE storeBlock(st, flowDirection, r, rule,
                    createLoop(reg, failGet, failCreateAt, flowDirection,
                               [st EXCEPT !.ids = rule.ids], rulesToAdd.rules))

(* A faulty createExpanded, which C18 must tell apart: when a peer group   *)
(* cannot be resolved, the rules of the CIDR peers are submitted before    *)
(* the error is returned.                                                  *)
createExpandedPartial(reg, failFind, failGet, failCreateAt, flowDirection, st, r, rule) ==
    IF securityGroupRulesToAdd(reg, failFind, rule).err = ""
    THEN createRules(reg, failGet, failCreateAt, flowDirection, st, r, rule,
                     securityGroupRulesToAdd(reg, failFind, rule))
    ELSE [createRules(reg, failGet, failCreateAt, flowDirection, st, r, rule,
                      securityGroupRulesToAdd(reg, failFind,
                          [rule EXCEPT !.user_security_group_list = {}]))
          EXCEPT !.err = securityGroupRulesToAdd(reg, failFind, rule).err]

createExpanded(reg, failFind, failGet, failCreateAt, flowDirection, st, r, rule) ==
    createRules(reg, failGet, failCreateAt, flowDirection, st, r, rule,
                securityGroupRulesToAdd(reg, failFind, rule))

(* The body of the loop over rules.List() (lines 395-429), for one block.  *)
createBlock(reg, failFind, failGet, failCreateAt, flowDirection, st, r) ==
    createExpanded(reg, failFind, failGet, failCreateAt, flowDirection, st, r,
                   [r EXCEPT !.user_security_group_list = {ToLower(x) : x \in @}])

RECURSIVE createBlocks(_, _, _, _, _, _, _)
createBlocks(reg, failFind, failGet, failCreateAt, flowDirection, st, list) ==
    IF list = <<>> \/ st.err # "" THEN st
    ELSE createBlocks(reg, failFind, failGet, failCreateAt, flowDirection,
             createBlock(reg, failFind, failGet, failCreateAt, flowDirection, st, Head(list)),
             Tail(list))

(* d.SetId(rand.Uint64()): any non-empty ID.                                *)
NewId == "1"

createStart(data, rules, n) ==
    [d |-> data, sgRules |-> rules, nextID |-> n, err |-> "", idErr |-> "",
     ids |-> {}, added |-> {}, calls |-> <<>>, nCreate |-> 0, readIn |-> Nil,
     lookup |-> Nil]

(* Line 439: the handler returns what Read returns.                        *)
createRead(e, created, read) ==
    [e EXCEPT !.d = read.d, !.err = read.err, !.readIn = Ptr(created),
              !.idErr = IF @ # "" THEN @ ELSE read.idErr]

createSetId(reg, parentRead, failGetRead, e, created) ==
    createRead(e, created,
               resourceSecurityGroupRulesRead(created, e.sgRules, reg, parentRead,
                                              failGetRead))

createFinish(reg, parentRead, failGetRead, e) ==
    IF e.err # "" THEN e
    ELSE createSetId(reg, parentRead, failGetRead, e, [e.d EXCEPT !.Id = NewId])

(* A faulty resourceSecurityGroupRulesCreate, which C16 must tell apart:   *)
(* the parent group is looked up before the attributes are validated.      *)
resourceSecurityGroupRulesCreateLate(data, rules, n, reg, parent, failFind, failGet, failCreateAt, parentRead, failGetRead) ==
    IF data.security_group_id = "" /\ data.security_group = ""
    THEN [createStart(data, rules, n) EXCEPT !.err = ErrValidation,
                                             !.lookup = parentLookup(data, parent)]
    ELSE IF parent = "notfound"
    THEN [createStart(data, rules, n) EXCEPT !.err = ErrNotFound,
                                             !.lookup = parentLookup(data, parent)]
    ELSE IF parent = "error"
    THEN [createStart(data, rules, n) EXCEPT !.err = ErrAPI,
                                             !.lookup = parentLookup(data, parent)]
    ELSE createFinish(reg, parentRead, failGetRead,
             createBlocks(reg, failFind, failGet, failCreateAt, "egress",
                 createBlocks(reg, failFind, failGet, failCreateAt, "ingress",
                     [createStart([data EXCEPT !.security_group = ParentName,
                                               !.security_group_id = ParentID],
                                  rules, n)
                      EXCEPT !.lookup = parentLookup(data, parent)],
                     SetToSeq(data.ingress)),
                 SetToSeq(data.egress)))

resourceSecurityGroupRulesCreate(data, rules, n, reg, parent, failFind, failGet, failCreateAt, parentRead, failGetRead) ==
    IF data.security_group_id = "" /\ data.security_group = ""
    THEN [createStart(data, rules, n) EXCEPT !.err = ErrValidation]
    ELSE IF parent = "notfound"
    THEN [createStart(data, rules, n) EXCEPT !.err = ErrNotFound,
                                             !.lookup = parentLookup(data, parent)]
    ELSE IF parent = "error"
    THEN [createStart(data, rules, n) EXCEPT !.err = ErrAPI,
                                             !.lookup = parentLookup(data, parent)]
    ELSE createFinish(reg, parentRead, failGetRead,
             createBlocks(reg, failFind, failGet, failCreateAt, "egress",
                 createBlocks(reg, failFind, failGet, failCreateAt, "ingress",
                     [createStart([data EXCEPT !.security_group = ParentName,
                                               !.security_group_id = ParentID],
                                  rules, n)
                      EXCEPT !.lookup = parentLookup(data, parent)],
                     SetToSeq(data.ingress)),
                 SetToSeq(data.egress)))

-----------------------------------------------------------------------------
(* resourceSecurityGroupRulesUpdate (lines 533-610) and                    *)
(* resourceSecurityGroupRulesDelete (lines 612-664).                       *)

(* client.DeleteSecurityGroupRule: the service drops the rule of that ID.  *)
DeleteSecurityGroupRule(rules, securityGroupRule) ==
    {r \in rules : r.ID # securityGroupRule.ID}

(* schema.Set.Difference and schema.Set.Union: elements are told apart by  *)
(* their hash, and in a union the element of the argument wins.            *)
SetDifference(a, b) == {x \in a : \A y \in b : hashKey(y) # hashKey(x)}
SetUnion(a, b) == SetDifference(a, b) \cup b

(* The order of a range over the map of rules to remove is not fixed: the  *)
(* identifiers are walked in one order or in the reverse one.              *)
Reverse(s) == [i \in 1..Len(s) |-> s[Len(s) + 1 - i]]
rangeOver(ids, rev) == IF rev THEN Reverse(SetToSeq(ids)) ELSE SetToSeq(ids)

(* The lookup of the parent group by Update and Delete (lines 546, 625),   *)
(* and what it reported.                                                   *)
parentGet(data, parent) == Ptr(<<"GetSecurityGroup", data.security_group_id, parent>>)

updateStart(data, rules, n, parent) ==
    [d |-> data, sgRules |-> rules, nextID |-> n, err |-> "", idErr |-> "",
     ids |-> {}, added |-> {}, calls |-> <<>>, nCreate |-> 0, nDelete |-> 0,
     readIn |-> Nil, lookup |-> parentGet(data, parent)]

(* A faulty removeLoop, which C17 must tell apart: a delete that failed is *)
(* tried again.                                                            *)
RECURSIVE removeLoopRetry(_, _, _, _, _)
removeLoopRetry(failDeleteAt, flowDirection, st, rulesToRemove, identifiers) ==
    IF identifiers = <<>> \/ st.err # "" THEN st
    ELSE IF st.nDelete + 1 = failDeleteAt
    THEN removeLoopRetry(failDeleteAt, flowDirection,
             [st EXCEPT !.nDelete = @ + 1,
                        !.calls = Append(@, <<"deleteRule",
                                              Deref(rulesToRemove[Head(identifiers)].ID),
                                              flowDirection, "failed">>)],
             rulesToRemove, identifiers)
    ELSE removeLoopRetry(failDeleteAt, flowDirection,
             [st EXCEPT !.sgRules = DeleteSecurityGroupRule(
                                        @, rulesToRemove[Head(identifiers)]),
                        !.nDelete = @ + 1,
                        !.calls = Append(@, <<"deleteRule",
                                              Deref(rulesToRemove[Head(identifiers)].ID),
                                              flowDirection, "ok">>),
                        !.ids = @ \ {Head(identifiers)}],
             rulesToRemove, Tail(identifiers))

(* The loop over rulesToRemove (lines 573-578 and 649-655).                *)
RECURSIVE removeLoop(_, _, _, _, _)
removeLoop(failDeleteAt, flowDirection, st, rulesToRemove, identifiers) ==
    IF identifiers = <<>> \/ st.err # "" THEN st
    ELSE IF st.nDelete + 1 = failDeleteAt
    THEN [st EXCEPT !.err = ErrAPI,
                    !.nDelete = @ + 1,
                    !.calls = Append(@, <<"deleteRule",
                                          Deref(rulesToRemove[Head(identifiers)].ID),
                                          flowDirection, "failed">>)]
    ELSE removeLoop(failDeleteAt, flowDirection,
             [st EXCEPT !.sgRules = DeleteSecurityGroupRule(
                                        @, rulesToRemove[Head(identifiers)]),
                        !.nDelete = @ + 1,
                        !.calls = Append(@, <<"deleteRule",
                                              Deref(rulesToRemove[Head(identifiers)].ID),
                                              flowDirection, "ok">>),
                        !.ids = @ \ {Head(identifiers)}],
             rulesToRemove, Tail(identifiers))

(* The body of the loop over toRemove.List() (lines 565-579): the block is *)
(* one of the old set, so its ids are not part of the new data.            *)
updateRemoveBlock(failDeleteAt, rev, flowDirection, st, rule) ==
    removeLoop(failDeleteAt, flowDirection, st, securityGroupRulesToRemove(rule),
               rangeOver(rule.ids, rev))

RECURSIVE updateRemoveBlocks(_, _, _, _, _)
updateRemoveBlocks(failDeleteAt, rev, flowDirection, st, list) ==
    IF list = <<>> \/ st.err # "" THEN st
    ELSE updateRemoveBlocks(failDeleteAt, rev, flowDirection,
             updateRemoveBlock(failDeleteAt, rev, flowDirection, st, Head(list)),
             Tail(list))

(* Lines 591-599: the rule is created, and an error of ruleToID is         *)
(* returned before the id is added.                                        *)
addedRule(st, flowDirection, securityGroupRule, res) ==
    [st EXCEPT !.sgRules = @ \cup {securityGroupRule},
               !.nextID = @ + 1,
               !.nCreate = @ + 1,
               !.calls = Append(@, <<"createRule", Deref(securityGroupRule.ID),
                                     flowDirection, "ok">>),
               !.idErr = IF res.err # "" THEN res.err ELSE @,
               !.err = IF res.err # "" THEN res.err ELSE @,
               !.ids = IF res.err # "" THEN @ ELSE @ \cup {res.id},
               !.added = IF res.err # "" THEN @ ELSE @ \cup {res.id}]

updateCreated(reg, failGet, st, flowDirection, securityGroupRule) ==
    addedRule(st, flowDirection, securityGroupRule,
              ruleToID(reg, failGet, securityGroupRule))

(* The loop over rulesToAdd (lines 589-600).                               *)
RECURSIVE addLoop(_, _, _, _, _, _)
addLoop(reg, failGet, failCreateAt, flowDirection, st, rulesToAdd) ==
    IF rulesToAdd = <<>> \/ st.err # "" THEN st
    ELSE IF st.nCreate + 1 = failCreateAt
    THEN [st EXCEPT !.err = ErrAPI,
                    !.nCreate = @ + 1,
                    !.calls = Append(@, <<"createRule", "", flowDirection, "failed">>)]
    ELSE addLoop(reg, failGet, failCreateAt, flowDirection,
             updateCreated(reg, failGet, st, flowDirection,
                 CreateSecurityGroupRule(st.nextID,
                     [Head(rulesToAdd) EXCEPT !.FlowDirection =
                                                 nonEmptyStringPtr(flowDirection)])),
             Tail(rulesToAdd))

updateAddRules(reg, failGet, failCreateAt, flowDirection, st, rule, rulesToAdd) ==
    IF rulesToAdd.err # "" THEN [st EXCEPT !.err = rulesToAdd.err]
    ELSE storeBlock(st, flowDirection, rule, rule,
                    addLoop(reg, failGet, failCreateAt, flowDirection,
                            [st EXCEPT !.ids = rule.ids], rulesToAdd.rules))

(* The body of the loop over toAdd.List() (lines 581-601).                 *)
updateAddBlock(reg, failFind, failGet, failCreateAt, flowDirection, st, rule) ==
    updateAddRules(reg, failGet, failCreateAt, flowDirection, st, rule,
                   securityGroupRulesToAdd(reg, failFind, rule))

RECURSIVE updateAddBlocks(_, _, _, _, _, _, _)
updateAddBlocks(reg, failFind, failGet, failCreateAt, flowDirection, st, list) ==
    IF list = <<>> \/ st.err # "" THEN st
    ELSE updateAddBlocks(reg, failFind, failGet, failCreateAt, flowDirection,
             updateAddBlock(reg, failFind, failGet, failCreateAt, flowDirection, st,
                            Head(list)),
             Tail(list))

(* A faulty updateDirection, which C20 must tell apart: the new blocks are *)
(* created before the old ones are removed.                                *)
updateDirectionAddFirst(old, data, reg, failFind, failGet, failDeleteAt, failCreateAt, rev, flowDirection, st) ==
    IF st.err # "" \/ old[flowDirection] = data[flowDirection] THEN st
    ELSE updateRemoveBlocks(failDeleteAt, rev, flowDirection,
             updateAddBlocks(reg, failFind, failGet, failCreateAt, flowDirection, st,
                 SetToSeq(SetDifference(data[flowDirection], old[flowDirection]))),
             SetToSeq(SetDifference(old[flowDirection], data[flowDirection])))

(* One turn of the loop over the directions (lines 556-603): old and data  *)
(* are the two ends of d.GetChange.                                        *)
updateDirection(old, data, reg, failFind, failGet, failDeleteAt, failCreateAt, rev, flowDirection, st) ==
    IF st.err # "" \/ old[flowDirection] = data[flowDirection] THEN st
    ELSE updateAddBlocks(reg, failFind, failGet, failCreateAt, flowDirection,
             updateRemoveBlocks(failDeleteAt, rev, flowDirection, st,
                 SetToSeq(SetDifference(old[flowDirection], data[flowDirection]))),
             SetToSeq(SetDifference(data[flowDirection], old[flowDirection])))

(* Line 609: the handler returns what Read returns.                        *)
updateFinish(reg, parentRead, failGetRead, e) ==
    IF e.err # "" THEN e
    ELSE createSetId(reg, parentRead, failGetRead, e, e.d)

(* A faulty resourceSecurityGroupRulesUpdate, which C15 must tell apart: a *)
(* parent group that is gone is an error like any other.                   *)
resourceSecurityGroupRulesUpdateFatal(old, data, rules, n, reg, parent, failFind, failGet, failDeleteAt, failCreateAt, rev, parentRead, failGetRead) ==
    IF parent = "notfound"
    THEN [updateStart(data, rules, n, parent) EXCEPT !.err = ErrNotFound]
    ELSE IF parent = "error"
    THEN [updateStart(data, rules, n, parent) EXCEPT !.err = ErrAPI]
    ELSE updateFinish(reg, parentRead, failGetRead,
             updateDirection(old, data, reg, failFind, failGet, failDeleteAt,
                             failCreateAt, rev, "egress",
                 updateDirection(old, data, reg, failFind, failGet, failDeleteAt,
                                 failCreateAt, rev, "ingress",
                                 updateStart(data, rules, n, parent))))

resourceSecurityGroupRulesUpdate(old, data, rules, n, reg, parent, failFind, failGet, failDeleteAt, failCreateAt, rev, parentRead, failGetRead) ==
    IF parent = "notfound"
    THEN [updateStart(data, rules, n, parent) EXCEPT !.d.Id = ""]
    ELSE IF parent = "error"
    THEN [updateStart(data, rules, n, parent) EXCEPT !.err = ErrAPI]
    ELSE updateFinish(reg, parentRead, failGetRead,
             updateDirection(old, data, reg, failFind, failGet, failDeleteAt,
                             failCreateAt, rev, "egress",
                 updateDirection(old, data, reg, failFind, failGet, failDeleteAt,
                                 failCreateAt, rev, "ingress",
                                 updateStart(data, rules, n, parent))))

(* ids.Remove (line 654) on a block of the union, which is the block of    *)
(* egress when both directions hold it.                                    *)
deleteStore(st, rule, after) ==
    [after EXCEPT
        !.d.egress = {IF x = rule THEN [x EXCEPT !.ids = after.ids] ELSE x : x \in @},
        !.d.ingress = IF rule \in st.d.egress THEN @
                      ELSE {IF x = rule THEN [x EXCEPT !.ids = after.ids] ELSE x :
                                x \in @}]

(* The body of the loop over rules.List() (lines 640-656).                 *)
deleteBlock(failDeleteAt, rev, st, rule) ==
    deleteStore(st, rule,
                removeLoop(failDeleteAt, "", [st EXCEPT !.ids = rule.ids],
                           securityGroupRulesToRemove(rule), rangeOver(rule.ids, rev)))

RECURSIVE deleteBlocks(_, _, _, _)
deleteBlocks(failDeleteAt, rev, st, list) ==
    IF list = <<>> \/ st.err # "" THEN st
    ELSE deleteBlocks(failDeleteAt, rev,
                      deleteBlock(failDeleteAt, rev, st, Head(list)), Tail(list))

resourceSecurityGroupRulesDelete(data, rules, n, parent, failDeleteAt, rev) ==
    IF parent = "notfound"
    THEN [updateStart(data, rules, n, parent) EXCEPT !.d.Id = ""]
    ELSE IF parent = "error"
    THEN [updateStart(data, rules, n, parent) EXCEPT !.err = ErrAPI]
    ELSE deleteBlocks(failDeleteAt, rev, updateStart(data, rules, n, parent),
                      SetToSeq(SetUnion(data.ingress, data.egress)))

-----------------------------------------------------------------------------
(* The inputs the handlers are run on.                                     *)
MaxPorts == 2       \* port entries per block
MaxVanished == 1    \* rules the backing service loses behind the provider's back
MaxFailAt == 2      \* the createRule call that fails is among the first MaxFailAt

CIDRs == {"10.0.0.0/8", "192.168.1.0/24"}
GroupNames == {"web"}
PortEntries == {"80", "80-80", "8000-8100"}
PortProtocols == {"TCP", "udp"}
OtherProtocols == {"ICMPv6", "ALL"}

(* The registry returns lower-case names (comment at lines 287-288).       *)
LowerRegistry == [g \in GroupIDs |-> "web"]

PortSets == {P \in SUBSET PortEntries : Cardinality(P) <= MaxPorts}

Block(protocol, cidrs, groups, ports) ==
    [protocol |-> protocol, description |-> "ssh",
     icmp_type |-> IF HasPrefix(ToLower(protocol), "icmp") THEN 8 ELSE 0,
     icmp_code |-> 0,
     cidr_list |-> cidrs, user_security_group_list |-> groups, ports |-> ports,
     ids |-> {}]

BlocksOver(names) ==
    {Block(p, c, g, ports) :
        p \in PortProtocols, c \in SUBSET CIDRs, g \in SUBSET names, ports \in PortSets}
    \cup
    {Block(p, c, g, ports) :
        p \in OtherProtocols, c \in SUBSET CIDRs, g \in SUBSET names,
        ports \in {{}, {"80"}}}

Blocks == BlocksOver(GroupNames)

Absent ==
    [Id |-> "", security_group_id |-> "", security_group |-> "",
     ingress |-> {}, egress |-> {}]

Data(ref, flowDirection, block) ==
    [Id |-> "",
     security_group_id |-> IF ref = "id" THEN ParentID ELSE "",
     security_group |-> IF ref = "name" THEN ParentName ELSE "",
     ingress |-> IF flowDirection = "ingress" THEN {block} ELSE {},
     egress |-> IF flowDirection = "egress" THEN {block} ELSE {}]

NoConfig == [ingress |-> {}, egress |-> {}]

(* Egress is exercised on the blocks with at most one CIDR and one port.   *)
IsEgressBlock(b) == Cardinality(b.cidr_list) <= 1 /\ Cardinality(b.ports) <= 1

NoOp == [name |-> "init", err |-> "", idErr |-> "", added |-> {}, calls |-> <<>>,
         readIn |-> Nil, by |-> <<>>, lookup |-> Nil]

(* How the data a handler is given names the parent group.                 *)
by(data) == <<data.security_group_id, data.security_group>>

-----------------------------------------------------------------------------
Init ==
    /\ d = Absent
    /\ config = NoConfig
    /\ sgRules = {}
    /\ nextID = 1
    /\ registry = LowerRegistry
    /\ op = NoOp
    /\ fn = Nil
    /\ updates = 0

(* The inputs of one Create: how the parent group is named, the block and  *)
(* its direction, and which calls to the backing service fail. Failures    *)
(* that the handler cannot reach are left out.                             *)
CreateInputs ==
    {in \in [ref : {"none", "id", "name"}, flowDirection : {"ingress", "egress"},
             block : Blocks, parent : ParentOutcomes,
             failFind : SUBSET GroupNames, failGet : SUBSET GroupIDs,
             failCreateAt : 0..MaxFailAt,
             parentRead : ParentOutcomes, failGetRead : SUBSET GroupIDs] :
        /\ in.flowDirection = "egress" => IsEgressBlock(in.block)
        /\ (in.ref = "none" \/ in.parent # "ok")
              => /\ in.failFind = {} /\ in.failGet = {} /\ in.failCreateAt = 0
                 /\ in.parentRead = "ok" /\ in.failGetRead = {}
        /\ in.block.user_security_group_list = {}
              => in.failFind = {} /\ in.failGet = {} /\ in.failGetRead = {}
        /\ (in.failFind # {} \/ in.failCreateAt # 0 \/ in.parentRead # "ok")
              => in.failGetRead = {}}

(* The state a handler's run leaves: a resource whose Id is empty is       *)
(* dropped from the state.                                                 *)
Stored(data) == IF data.Id = "" THEN Absent ELSE data

CreateDone(data, res) ==
    /\ d' = Stored(res.d)
    /\ config' = [ingress |-> data.ingress, egress |-> data.egress]
    /\ sgRules' = res.sgRules
    /\ nextID' = res.nextID
    /\ op' = [name |-> "Create", err |-> res.err, idErr |-> res.idErr,
              added |-> res.added, calls |-> res.calls, readIn |-> res.readIn,
              by |-> by(data), lookup |-> res.lookup]

CreateOn(in, data) ==
    CreateDone(data,
               resourceSecurityGroupRulesCreate(
                   data, sgRules, nextID, registry, in.parent, in.failFind,
                   in.failGet, in.failCreateAt, in.parentRead, in.failGetRead))

(* terraform apply of a new resource: the Create handler, which ends with  *)
(* a Read. A Create that fails before SetId leaves no resource in state.   *)
Create ==
    /\ d.Id = ""
    /\ config = NoConfig
    /\ \E in \in CreateInputs : CreateOn(in, Data(in.ref, in.flowDirection, in.block))
    /\ UNCHANGED <<registry, fn, updates>>

ReadDone(res) ==
    /\ d' = Stored(res.d)
    /\ op' = [name |-> "Read", err |-> res.err, idErr |-> res.idErr,
              added |-> {}, calls |-> <<>>, readIn |-> Ptr(d),
              by |-> by(d), lookup |-> res.lookup]

(* terraform refresh: the Read handler on the stored state. A failed Read  *)
(* leaves the stored state as it was.                                      *)
Read ==
    /\ d.Id # ""
    /\ \E parent \in ParentOutcomes, failGet \in SUBSET GroupIDs :
        /\ parent # "ok" => failGet = {}
        /\ ReadDone(resourceSecurityGroupRulesRead(d, sgRules, registry, parent, failGet))
    /\ UNCHANGED <<config, sgRules, nextID, registry, fn, updates>>

(* A rule of the group is deleted outside Terraform.                       *)
Vanish ==
    /\ d.Id # ""
    /\ (nextID - 1) - Cardinality(sgRules) < MaxVanished
    /\ \E r \in sgRules : sgRules' = sgRules \ {r}
    /\ op' = [NoOp EXCEPT !.name = "Vanish"]
    /\ UNCHANGED <<d, config, nextID, registry, fn, updates>>

Next == Create \/ Read \/ Vanish

Spec == Init /\ [][Next]_vars


-----------------------------------------------------------------------------
(* The four handlers together, on a resource of up to two ingress blocks   *)
(* and one egress block. The "TCP" blocks read back as they are declared;  *)
(* the "udp" one reads back as "UDP", so it differs from its declaration   *)
(* at every plan.                                                          *)
MaxUpdates == 1

CrudBlocks ==
    {Block("TCP", {"10.0.0.0/8"}, {}, {"80"}),
     Block("TCP", {"192.168.1.0/24"}, {}, {"80", "8000-8100"}),
     Block("udp", {}, {"web"}, {"80"})}
CrudIngress == {s \in SUBSET CrudBlocks : Cardinality(s) <= 2}
CrudEgress == {{}, {Block("TCP", {"10.0.0.0/8"}, {}, {"80"})}}
CrudConfigs == {[ingress |-> i, egress |-> e] : i \in CrudIngress, e \in CrudEgress}

(* The set of a direction as the plan hands it to Update: a declared block *)
(* whose hash the state holds is the state's block, ids included; any      *)
(* other is new and has no ids yet.                                        *)
PlannedSet(old, declared) ==
    {IF \E o \in old : hashKey(o) = hashKey(c)
     THEN CHOOSE o \in old : hashKey(o) = hashKey(c)
     ELSE c : c \in declared}

Planned(data, cfg) ==
    [data EXCEPT !.ingress = PlannedSet(@, cfg.ingress),
                 !.egress = PlannedSet(@, cfg.egress)]

CrudCreateInputs ==
    {in \in [ref : {"none", "id", "name"}, cfg : CrudConfigs, parent : ParentOutcomes,
             failFind : {{}}, failGet : SUBSET GroupIDs, failCreateAt : 0..MaxFailAt,
             parentRead : {"ok"}, failGetRead : {{}}] :
        /\ in.cfg # NoConfig
        /\ (in.ref = "none" \/ in.parent # "ok")
              => in.failGet = {} /\ in.failCreateAt = 0}

CreateCrud ==
    /\ d.Id = ""
    /\ config = NoConfig
    /\ \E in \in CrudCreateInputs :
          CreateOn(in, [Id |-> "",
                        security_group_id |-> IF in.ref = "id" THEN ParentID ELSE "",
                        security_group |-> IF in.ref = "name" THEN ParentName ELSE "",
                        ingress |-> in.cfg.ingress, egress |-> in.cfg.egress])
    /\ UNCHANGED <<registry, fn, updates>>

(* One call at most fails in an Update.                                    *)
Failures(in) ==
    Cardinality(in.failFind) + Cardinality(in.failGet)
    + (IF in.failDeleteAt # 0 THEN 1 ELSE 0) + (IF in.failCreateAt # 0 THEN 1 ELSE 0)
    + (IF in.parentRead # "ok" THEN 1 ELSE 0) + (IF in.parent # "ok" THEN 1 ELSE 0)

UpdateInputs ==
    {in \in [cfg : CrudConfigs, parent : ParentOutcomes,
             failFind : SUBSET GroupNames, failGet : SUBSET GroupIDs,
             failDeleteAt : 0..MaxFailAt, failCreateAt : 0..MaxFailAt,
             rev : BOOLEAN, parentRead : ParentOutcomes] :
        /\ in.cfg # NoConfig
        /\ in.parent # "ok" => ~in.rev
        /\ Failures(in) <= 1}

(* The state an Update or a Delete leaves: what the data holds when the    *)
(* handler returns, error or not.                                          *)
UpdateDone(data, cfg, res) ==
    /\ d' = Stored(res.d)
    /\ config' = cfg
    /\ sgRules' = res.sgRules
    /\ nextID' = res.nextID
    /\ op' = [name |-> "Update", err |-> res.err, idErr |-> res.idErr,
              added |-> res.added, calls |-> res.calls, readIn |-> res.readIn,
              by |-> by(data), lookup |-> res.lookup]

UpdateOn(in, data) ==
    UpdateDone(data, in.cfg,
               resourceSecurityGroupRulesUpdate(
                   d, data, sgRules, nextID, registry, in.parent, in.failFind,
                   in.failGet, in.failDeleteAt, in.failCreateAt, in.rev,
                   in.parentRead, {}))

(* terraform apply of a changed declaration: the Update handler, which     *)
(* ends with a Read.                                                       *)
Update ==
    /\ d.Id # ""
    /\ updates < MaxUpdates
    /\ updates' = updates + 1
    /\ \E in \in UpdateInputs :
          /\ Planned(d, in.cfg) # d
          /\ UpdateOn(in, Planned(d, in.cfg))
    /\ UNCHANGED <<registry, fn>>

DeleteDone(res) ==
    /\ d' = IF res.err = "" THEN Absent ELSE res.d
    /\ sgRules' = res.sgRules
    /\ nextID' = res.nextID
    /\ op' = [name |-> "Delete", err |-> res.err, idErr |-> res.idErr,
              added |-> res.added, calls |-> res.calls, readIn |-> res.readIn,
              by |-> by(d), lookup |-> res.lookup]

(* terraform destroy: the Delete handler. A Delete that returns no error   *)
(* removes the resource from the state.                                    *)
Delete ==
    /\ d.Id # ""
    /\ \E parent \in ParentOutcomes, failDeleteAt \in 0..MaxFailAt, rev \in BOOLEAN :
          /\ parent # "ok" => failDeleteAt = 0 /\ ~rev
          /\ DeleteDone(resourceSecurityGroupRulesDelete(d, sgRules, nextID, parent,
                                                         failDeleteAt, rev))
    /\ UNCHANGED <<config, registry, fn, updates>>

NextCrud == CreateCrud \/ Read \/ Update \/ Delete

SpecCrud == Init /\ [][NextCrud]_vars
-----------------------------------------------------------------------------
(* The pure functions on their own: Init draws a block or a backing rule,  *)
(* and a registry whose names are lower-case or mixed-case; the actions    *)
(* apply securityGroupRulesToAdd and ruleToID.                             *)
FnGroupIDs == {"g1", "g2"}
FnGroupNames == {"web", "db"}
FnRegistries ==
    {[g \in FnGroupIDs |-> IF g = "g1" THEN n ELSE "db"] : n \in {"web", "Web"}}
FnBlocks == BlocksOver(FnGroupNames)
FnProtocols == {"tcp", "UDP", "icmp", "ICMPv6", "ALL"}
FnRanges == {<<80, 80>>, <<8000, 8100>>}

(* A rule as the backing service returns it.                               *)
BackingRule(protocol, peer, range) ==
    [EmptyRule EXCEPT
        !.ID = Ptr("r1"),
        !.Protocol = Ptr(protocol),
        !.FlowDirection = Ptr("ingress"),
        !.Network = IF peer \in CIDRs THEN ParseCIDR(peer).network ELSE Nil,
        !.SecurityGroupID = IF peer \in CIDRs THEN Nil ELSE Ptr(peer),
        !.StartPort = IF ToLower(protocol) \in {"tcp", "udp"} THEN Ptr(range[1]) ELSE Nil,
        !.EndPort = IF ToLower(protocol) \in {"tcp", "udp"} THEN Ptr(range[2]) ELSE Nil,
        !.ICMPType = IF HasPrefix(ToLower(protocol), "icmp") THEN Ptr(8) ELSE Nil,
        !.ICMPCode = IF HasPrefix(ToLower(protocol), "icmp") THEN Ptr(0) ELSE Nil]

FnRules ==
    {BackingRule(p, x, q) : p \in FnProtocols, x \in CIDRs \cup FnGroupIDs, q \in FnRanges}

(* A block as the state holds it after Create, with the rules the backing  *)
(* group holds when it is next read: the ids name one rule per peer and    *)
(* range (and, after a failed ruleToID, the empty identifier), and any of  *)
(* those rules may be gone. The backing service spells the protocol in     *)
(* any letter case.                                                        *)
FnStoredProtocols == FnProtocols \cup {"Tcp", "icmpV6"}
FnPeers == {"10.0.0.0/8", "g1"}
FnRuleID(peer, range) == (IF peer \in CIDRs THEN "c" ELSE "s") \o Itoa(range[1])
StoredRule(protocol, peer, range) ==
    [BackingRule(protocol, peer, range) EXCEPT !.ID = Ptr(FnRuleID(peer, range))]
StoredRules(protocol, peers, ranges) ==
    {StoredRule(protocol, x, q) : x \in peers, q \in ranges}
StoredBlock(reg, protocol, peers, ranges, stale) ==
    [Block(protocol, peers \cap CIDRs, {reg[g] : g \in peers \ CIDRs},
           IF ToLower(protocol) \in {"tcp", "udp"}
           THEN {portText(q[1], q[2]) : q \in ranges} ELSE {})
     EXCEPT !.ids = {ruleToID(reg, {}, r).id : r \in StoredRules(protocol, peers, ranges)}
                    \cup stale]
FnStored(reg) ==
    UNION {{[rule |-> StoredBlock(reg, p, x, q, stale), backing |-> s] :
                s \in SUBSET StoredRules(p, x, q)} :
           p \in FnStoredProtocols, x \in SUBSET FnPeers \ {{}},
           q \in SUBSET FnRanges \ {{}}, stale \in {{}, {""}}}

InitFn ==
    /\ d = Absent
    /\ config = NoConfig
    /\ sgRules = {}
    /\ nextID = 1
    /\ op = NoOp
    /\ updates = 0
    /\ registry \in FnRegistries
    /\ \/ fn \in {[kind |-> "block", in |-> b, out |-> Nil] : b \in FnBlocks}
       \/ fn \in {[kind |-> "rule", in |-> r, out |-> Nil] : r \in FnRules}
       \/ fn \in {[kind |-> "stored", in |-> s, out |-> Nil] : s \in FnStored(registry)}

Expand ==
    /\ fn.kind = "block"
    /\ fn.out = Nil
    /\ \E failFind \in SUBSET FnGroupNames :
          fn' = [fn EXCEPT !.out = Ptr(securityGroupRulesToAdd(registry, failFind, fn.in))]
    /\ UNCHANGED <<d, config, sgRules, nextID, registry, op, updates>>

Identify ==
    /\ fn.kind = "rule"
    /\ fn.out = Nil
    /\ \E failGet \in SUBSET FnGroupIDs :
          fn' = [fn EXCEPT !.out = Ptr(ruleToID(registry, failGet, fn.in))]
    /\ UNCHANGED <<d, config, sgRules, nextID, registry, op, updates>>

(* The lookup Read builds from the rules of the group (lines 483-490).     *)
FnRuleFunc(reg, rules) ==
    [id \in {ruleToID(reg, {}, r).id : r \in rules} |->
        CHOOSE r \in rules : ruleToID(reg, {}, r).id = id]

ReconcileStored ==
    /\ fn.kind = "stored"
    /\ fn.out = Nil
    /\ \E failGet \in SUBSET {"g1"} :
          fn' = [fn EXCEPT !.out =
                    Ptr([f |-> "readRules",
                         val |-> readRules(registry, failGet, {fn.in.rule},
                                           FnRuleFunc(registry, fn.in.backing))])]
    /\ UNCHANGED <<d, config, sgRules, nextID, registry, op, updates>>

Remove ==
    /\ fn.kind = "stored"
    /\ fn.out = Nil
    /\ fn' = [fn EXCEPT !.out =
                 Ptr([f |-> "securityGroupRulesToRemove",
                      val |-> securityGroupRulesToRemove(fn.in.rule)])]
    /\ UNCHANGED <<d, config, sgRules, nextID, registry, op, updates>>

NextFn == Expand \/ Identify \/ ReconcileStored \/ Remove

SpecFn == InitFn /\ [][NextFn]_vars

-----------------------------------------------------------------------------
(* What the properties below speak of.                                     *)
Directions == {"ingress", "egress"}

(* The blocks the stored state holds, and the identifiers recorded there.  *)
StoredBlocks == d.ingress \cup d.egress
RecordedIds == UNION {b.ids : b \in StoredBlocks}

(* The block the resource was declared with.                               *)
Declared == CHOOSE b \in config.ingress \cup config.egress : TRUE

IsPortProtocol(b) == ToLower(b.protocol) \in {"tcp", "udp"}
PeerCount(b) == Cardinality(b.cidr_list) + Cardinality(b.user_security_group_list)

(* The key of a backing rule, and the lookup Read hands to readRules.      *)
Key(r) == ruleToID(registry, {}, r).id
RuleFunc == [id \in {Key(r) : r \in sgRules} |-> CHOOSE r \in sgRules : Key(r) = id]
Reconcile(rules) == readRules(registry, {}, rules, RuleFunc).rules

(* The last handler run ended with a successful Read of the resource.      *)
ReadDoneOK == op.readIn # Nil /\ op.err = "" /\ d.Id # ""

(* No rule was removed behind the provider's back.                         *)
BackingUnchanged == Cardinality(sgRules) = nextID - 1

BackingID(id) == SplitN2(id, "_")[1]

SameObserved(b, c) ==
    /\ b.cidr_list = c.cidr_list
    /\ b.user_security_group_list = c.user_security_group_list
    /\ b.ports = c.ports

(* C1: whenever ruleToID fails on an unresolved peer group, the handler    *)
(* that called it returns that error, and no identifier of the failed call *)
(* (in particular not the empty one) is added to a block's ids.            *)
C1_IdentifyFailureAborts ==
    op.idErr # "" => (op.err = op.idErr /\ "" \notin op.added)

(* C2: after a Read, while the backing group holds fewer rules than the    *)
(* declared (CIDRs + groups) x ports, the stored block does not show the   *)
(* declared CIDR, group and port sets; this after every Read of a sequence.*)
C2_DriftNeverSilent ==
    (/\ op.name = "Read" /\ op.err = "" /\ d.Id # ""
     /\ Cardinality(sgRules) < PeerCount(Declared) * Cardinality(Declared.ports))
    => \A b \in StoredBlocks : ~SameObserved(b, Declared)

(* C3: readRules applied to the outcome of readRules, over the same        *)
(* backing rules, gives that outcome again.                                *)
C3_ReconcileIdempotent ==
    ReadDoneOK => \A fd \in Directions : Reconcile(d[fd]) = d[fd]

(* The backing rules that the ids of block b still name.                   *)
Surviving(b) == {RuleFunc[id] : id \in b.ids \cap DOMAIN RuleFunc}
ObservedNetworks(b) == {r.Network : r \in {s \in Surviving(b) : s.Network # Nil}}
ObservedGroups(b) ==
    {registry[Deref(r.SecurityGroupID)] :
        r \in {s \in Surviving(b) : s.SecurityGroupID # Nil}}
ObservedRanges(b) ==
    {<<Deref(r.StartPort), Deref(r.EndPort)>> :
        r \in {s \in Surviving(b) : ToLower(Deref(s.Protocol)) \in {"tcp", "udp"}}}

Ambiguous(b) ==
    /\ Cardinality(ObservedNetworks(b)) = Cardinality(b.cidr_list)
    /\ Cardinality(ObservedRanges(b)) = Cardinality(b.ports)
    /\ Cardinality(ObservedGroups(b)) = Cardinality(b.user_security_group_list)
    /\ Cardinality(b.ids \cap DOMAIN RuleFunc) # PeerCount(b) * Cardinality(b.ports)

(* C4: readRules empties the ports of a block exactly when the observed    *)
(* CIDR, port and group sets have the sizes of the block's own sets while  *)
(* the number of surviving ids is not (CIDRs + groups) x ports; otherwise  *)
(* the ports are the port ranges of the surviving rules.                   *)
C4_AmbiguityPolicy ==
    ReadDoneOK =>
        \A fd \in Directions : \A b \in Deref(op.readIn)[fd] : \A out \in d[fd] :
            IF Ambiguous(b) THEN out.ports = {}
            ELSE /\ {portCouple(s) : s \in out.ports} = ObservedRanges(b)
                 /\ Cardinality(out.ports) = Cardinality(ObservedRanges(b))

(* C4 witness: a Read of a block of two CIDRs and two ports of whose four  *)
(* rules three are left, which emptied the ports.                          *)
C4_Witness ==
    /\ op.name = "Read" /\ op.err = "" /\ d.Id # ""
    /\ \E b \in Deref(op.readIn).ingress : \E out \in d.ingress :
          /\ Cardinality(b.cidr_list) = 2 /\ Cardinality(b.ports) = 2
          /\ Cardinality(b.ids) = 4 /\ Cardinality(Surviving(b)) = 3
          /\ Ambiguous(b)
          /\ out.ports = {}

(* The outcome of the expansion the harness ran.                           *)
FnExpanded == fn.kind = "block" /\ fn.out # Nil /\ Deref(fn.out).err = ""
FnOutRules == Deref(fn.out).rules

(* C5: a TCP/UDP block of c CIDRs, g groups and p ports expands to         *)
(* (c+g) x p rules; an ICMP/ICMPv6 block to (c+g) rules, whatever its      *)
(* ports.                                                                  *)
C5_ExpansionCardinality ==
    FnExpanded =>
        /\ IsPortProtocol(fn.in)
              => Len(FnOutRules) = PeerCount(fn.in) * Cardinality(fn.in.ports)
        /\ HasPrefix(ToLower(fn.in.protocol), "icmp")
              => Len(FnOutRules) = PeerCount(fn.in)

(* C5 witness: a UDP block of two CIDRs, two groups and two ports expanded *)
(* to eight rules.                                                         *)
C5_Witness ==
    /\ FnExpanded
    /\ fn.in.protocol = "udp"
    /\ Cardinality(fn.in.cidr_list) = 2
    /\ Cardinality(fn.in.user_security_group_list) = 2
    /\ Cardinality(fn.in.ports) = 2
    /\ Len(FnOutRules) = 8

(* The peers and port ranges a block declares, read off its text.          *)
DeclaredNetwork(c) ==
    CASE c = "10.0.0.0/8" -> [ip |-> <<10, 0, 0, 0>>, bits |-> 8]
      [] c = "192.168.1.0/24" -> [ip |-> <<192, 168, 1, 0>>, bits |-> 24]

DeclaredRange(e) ==
    CASE e = "80" -> <<80, 80>>
      [] e = "80-80" -> <<80, 80>>
      [] e = "8000-8100" -> <<8000, 8100>>

DeclaredPeers(b) ==
    {<<"cidr", DeclaredNetwork(c)>> : c \in b.cidr_list}
    \cup {<<"group", g>> :
             g \in {h \in DOMAIN registry : registry[h] \in b.user_security_group_list}}

PeerOf(r) ==
    IF r.Network # Nil THEN <<"cidr", Deref(r.Network)>>
    ELSE <<"group", Deref(r.SecurityGroupID)>>

RangeOf(r) ==
    IF r.StartPort = Nil THEN <<>> ELSE <<Deref(r.StartPort), Deref(r.EndPort)>>

PairOf(r) == <<PeerOf(r), RangeOf(r)>>

OnePeerEach(rules) ==
    \A i \in 1..Len(rules) : (rules[i].Network # Nil) # (rules[i].SecurityGroupID # Nil)

(* C6 as stated: any block expands to (CIDRs + groups) x max(1, ports)     *)
(* rules of one peer each, whose (peer, range) pairs are the cross product *)
(* of the peers with the port ranges (one implicit range for ICMP and the  *)
(* other protocols), each pair once.                                       *)
C6_ExpansionInvariant ==
    FnExpanded =>
        /\ Len(FnOutRules) = PeerCount(fn.in) * Max(1, Cardinality(fn.in.ports))
        /\ OnePeerEach(FnOutRules)
        /\ {PairOf(FnOutRules[i]) : i \in 1..Len(FnOutRules)}
              = DeclaredPeers(fn.in)
                \X (IF IsPortProtocol(fn.in)
                    THEN {DeclaredRange(e) : e \in fn.in.ports} ELSE {<<>>})
        /\ \A i, j \in 1..Len(FnOutRules) :
              i # j => PairOf(FnOutRules[i]) # PairOf(FnOutRules[j])

(* C6 amended: a TCP/UDP block expands to (CIDRs + groups) x ports rules,  *)
(* none when it has no ports, and every peer is paired with every port     *)
(* entry once (two entries of the same range give that pair twice); a      *)
(* block of any other protocol expands to one rule per peer, whatever its  *)
(* ports. Every rule carries exactly one peer.                             *)
C6_ExpansionAmended ==
    FnExpanded =>
        /\ Len(FnOutRules) = PeerCount(fn.in)
                               * (IF IsPortProtocol(fn.in)
                                  THEN Cardinality(fn.in.ports) ELSE 1)
        /\ OnePeerEach(FnOutRules)
        /\ \A i \in 1..Len(FnOutRules) : PeerOf(FnOutRules[i]) \in DeclaredPeers(fn.in)
        /\ \A x \in DeclaredPeers(fn.in) :
              IF IsPortProtocol(fn.in)
              THEN \A e \in fn.in.ports :
                     Cardinality({i \in 1..Len(FnOutRules) :
                                     PairOf(FnOutRules[i]) = <<x, DeclaredRange(e)>>})
                       = Cardinality({f \in fn.in.ports :
                                         DeclaredRange(f) = DeclaredRange(e)})
              ELSE Cardinality({i \in 1..Len(FnOutRules) :
                                   PairOf(FnOutRules[i]) = <<x, <<>>>>}) = 1

(* C6 witness: a TCP block with peers and no ports expanded to no rule.    *)
C6_Witness ==
    /\ FnExpanded
    /\ fn.in.protocol = "TCP"
    /\ PeerCount(fn.in) = 3
    /\ fn.in.ports = {}
    /\ Len(FnOutRules) = 0

(* C7: once Create has made the rules of a block of valid port entries,    *)
(* every Read over the unchanged backing rules leaves the ids that name    *)
(* those rules and shows the declared CIDR, group and port sets.           *)
C7_UnchangedNotReported ==
    (/\ op.name = "Read" /\ op.err = "" /\ d.Id # ""
     /\ BackingUnchanged
     /\ IsPortProtocol(Declared) /\ Declared.ports # {} /\ PeerCount(Declared) > 0)
    => \A b \in StoredBlocks :
          /\ b.ids = {Key(r) : r \in sgRules}
          /\ SameObserved(b, Declared)

CreatedCount == Cardinality({i \in 1..Len(op.calls) : op.calls[i][2] # "failed"})

(* C9: the identifiers of the rules made for one block are pairwise        *)
(* distinct: the block's ids has as many elements as rules were created.   *)
C9_IdentifiersUnique ==
    op.name = "Create" => Cardinality(op.added) = CreatedCount

(* The outcome of the identification the harness ran, for a rule that is   *)
(* not ICMP.                                                               *)
FnIdentified ==
    /\ fn.kind = "rule" /\ fn.out # Nil /\ Deref(fn.out).err = ""
    /\ ~HasPrefix(ToLower(Deref(fn.in.Protocol)), "icmp")

PeerName(r) ==
    IF r.Network # Nil THEN NetworkString(Deref(r.Network))
    ELSE ToLower(registry[Deref(r.SecurityGroupID)])

(* C10: the key of a TCP/UDP rule is id_protocol_peer_start-end and of any *)
(* other non-ICMP rule id_protocol_peer, the peer being the CIDR string or *)
(* else the lower-cased name of the peer group, whatever case the registry *)
(* returns it in.                                                          *)
C10_KeyFormat ==
    FnIdentified =>
        Deref(fn.out).id =
            Deref(fn.in.ID) \o "_" \o Deref(fn.in.Protocol) \o "_" \o PeerName(fn.in)
              \o (IF ToLower(Deref(fn.in.Protocol)) \in {"tcp", "udp"}
                  THEN "_" \o Itoa(Deref(fn.in.StartPort)) \o "-"
                           \o Itoa(Deref(fn.in.EndPort))
                  ELSE "")

-----------------------------------------------------------------------------
(* The outcome of the identification the harness ran, for an ICMP rule.    *)
FnIdentifiedICMP ==
    /\ fn.kind = "rule" /\ fn.out # Nil
    /\ HasPrefix(ToLower(Deref(fn.in.Protocol)), "icmp")

ICMPName(protocol) ==
    CASE protocol = "icmp" -> "icmp"
      [] protocol = "ICMPv6" -> "icmpv6"

(* C11: for a rule whose protocol starts with "icmp" in any letter case    *)
(* the key is id_protocol_type:code with the protocol lower-cased, without *)
(* peer name or port range, and without a group lookup: it is returned     *)
(* also when every group lookup would fail.                                *)
C11_ICMPKeyFormat ==
    FnIdentifiedICMP =>
        /\ Deref(fn.out).err = ""
        /\ Deref(fn.out).id =
              Deref(fn.in.ID) \o "_" \o ICMPName(Deref(fn.in.Protocol)) \o "_"
                \o Itoa(Deref(fn.in.ICMPType)) \o ":" \o Itoa(Deref(fn.in.ICMPCode))

(* C11 witness: an ICMPv6 rule of type 8, code 0 with a group peer got the *)
(* key r1_icmpv6_8:0.                                                      *)
C11_Witness ==
    /\ FnIdentifiedICMP
    /\ Deref(fn.in.Protocol) = "ICMPv6"
    /\ fn.in.SecurityGroupID # Nil
    /\ Deref(fn.out).id = "r1_icmpv6_8:0"

(* The identifiers of the rules the backing group holds.                   *)
BackingKeys == {Key(r) : r \in sgRules}

(* C12: after readRules the ids of a block are its previous ids that name  *)
(* a backing rule: absent ones are dropped, present ones kept, none is     *)
(* added, and the count of rules found is the number of ids kept.          *)
C12_IdsIntersection ==
    ReadDoneOK =>
        \A fd \in Directions : \A b \in Deref(op.readIn)[fd] : \A out \in d[fd] :
            /\ out.ids = b.ids \cap BackingKeys
            /\ readRule(registry, {}, RuleFunc, b).actualLen = Cardinality(out.ids)

(* C12 witness: a Read of a block with four ids of which one named a rule  *)
(* that is gone: three ids are left.                                       *)
C12_Witness ==
    /\ op.name = "Read" /\ op.err = "" /\ d.Id # ""
    /\ \E b \in Deref(op.readIn).ingress : \E out \in d.ingress :
          /\ Cardinality(b.ids) = 4
          /\ Cardinality(out.ids) = 3
          /\ out.ids \subseteq b.ids
          /\ \E id \in b.ids : id \notin BackingKeys

(* C13: when no id of a block names a backing rule, readRules leaves the   *)
(* block with empty ids and empty CIDR, group and port sets.               *)
C13_FullDeletion ==
    ReadDoneOK =>
        \A fd \in Directions : \A b \in Deref(op.readIn)[fd] : \A out \in d[fd] :
            b.ids \cap BackingKeys = {}
            => /\ out.ids = {}
               /\ out.cidr_list = {}
               /\ out.user_security_group_list = {}
               /\ out.ports = {}

(* C13 witness: a Read of a block with a CIDR, a port and one id after its *)
(* only rule was removed.                                                  *)
C13_Witness ==
    /\ op.name = "Read" /\ op.err = "" /\ d.Id # ""
    /\ sgRules = {}
    /\ \E b \in Deref(op.readIn).ingress : \E out \in d.ingress :
          /\ Cardinality(b.ids) = 1 /\ b.cidr_list # {} /\ b.ports # {}
          /\ out.ids = {} /\ out.cidr_list = {} /\ out.ports = {}

FnRemoved ==
    /\ fn.kind = "stored" /\ fn.out # Nil
    /\ Deref(fn.out).f = "securityGroupRulesToRemove"

(* The part of s before its first "_" (all of s when it has none).         *)
FirstUnderscore(s) ==
    CHOOSE i \in 1..(Len(s) + 1) :
        /\ i = Len(s) + 1 \/ SubSeq(s, i, i) = "_"
        /\ \A j \in 1..(i - 1) : SubSeq(s, j, j) # "_"
BeforeFirstUnderscore(s) == SubSeq(s, 1, FirstUnderscore(s) - 1)

(* C14: securityGroupRulesToRemove gives one entry per identifier of the   *)
(* block, each a rule that carries nothing but the backing ID, which is    *)
(* the part of the identifier before its first "_".                        *)
C14_RemoveDerivation ==
    FnRemoved =>
        /\ DOMAIN Deref(fn.out).val = fn.in.rule.ids
        /\ \A id \in fn.in.rule.ids :
              Deref(fn.out).val[id] =
                  [EmptyRule EXCEPT !.ID = Ptr(BeforeFirstUnderscore(id))]

(* C14 witness: a block of four identifiers, one of them of a rule whose   *)
(* key holds three "_", gives four rules, that one with the ID "c8000".    *)
C14_Witness ==
    /\ FnRemoved
    /\ Cardinality(DOMAIN Deref(fn.out).val) = 4
    /\ "c8000_tcp_10.0.0.0/8_8000-8100" \in fn.in.rule.ids
    /\ Deref(fn.out).val["c8000_tcp_10.0.0.0/8_8000-8100"].ID = Ptr("c8000")
    /\ Deref(fn.out).val["c8000_tcp_10.0.0.0/8_8000-8100"].Protocol = Nil

FnReconciled ==
    /\ fn.kind = "stored" /\ fn.out # Nil
    /\ Deref(fn.out).f = "readRules"
    /\ Deref(fn.out).val.err = ""

(* The protocol of the backing rules that the ids of the block still name. *)
FnSurviving ==
    {r \in fn.in.backing : ruleToID(registry, {}, r).id \in fn.in.rule.ids}
ProtocolName(protocol) ==
    CASE ToLower(protocol) = "tcp" -> "TCP"
      [] ToLower(protocol) = "udp" -> "UDP"
      [] ToLower(protocol) = "all" -> "ALL"
      [] ToLower(protocol) = "icmp" -> "ICMP"
      [] ToLower(protocol) = "icmpv6" -> "ICMPv6"

(* C19: after readRules a block of which at least one rule survives shows  *)
(* the protocol of its backing rules in upper case, and for the ICMP       *)
(* family exactly "ICMP" or "ICMPv6", whatever case the backing rule has.  *)
C19_ProtocolNormalised ==
    FnReconciled =>
        \A r \in FnSurviving : \A out \in Deref(fn.out).val.rules :
            out.protocol = ProtocolName(Deref(r.Protocol))

(* C19 witness: a backing rule spelt "icmpV6" is read back as "ICMPv6".    *)
C19_Witness ==
    /\ FnReconciled
    /\ fn.in.rule.protocol = "icmpV6"
    /\ \E r \in FnSurviving : Deref(r.Protocol) = "icmpV6"
    /\ \E out \in Deref(fn.out).val.rules : out.protocol = "ICMPv6" /\ out.ids # {}

(* Create returned the error of a peer-group lookup of                     *)
(* securityGroupRulesToAdd: it did not reach its Read.                     *)
CreateLookupFailed ==
    /\ op.name = "Create" /\ op.readIn = Nil
    /\ HasPrefix(op.err, "unable to retrieve Security Group ")

(* The block as Create hands it to securityGroupRulesToAdd (399-404).     *)
LoweredDeclared ==
    [Declared EXCEPT !.user_security_group_list = {ToLower(x) : x \in @}]

(* C18: when a peer group cannot be resolved, securityGroupRulesToAdd      *)
(* returns the error and no rule, and Create returns with no create call   *)
(* made for any rule of the block, those of its CIDR peers included.       *)
C18_NoPartialExpansion ==
    CreateLookupFailed =>
        /\ \A i \in 1..Len(op.calls) : op.calls[i][1] # "createRule"
        /\ sgRules = {} /\ nextID = 1
        /\ \A failFind \in SUBSET GroupNames :
              securityGroupRulesToAdd(registry, failFind, LoweredDeclared).err # ""
              => securityGroupRulesToAdd(registry, failFind, LoweredDeclared).rules = <<>>

(* C18 witness: a Create of a block with a CIDR, a group and a port whose  *)
(* group lookup failed: nothing was submitted.                             *)
C18_Witness ==
    /\ CreateLookupFailed
    /\ Declared.cidr_list # {} /\ Declared.ports # {}
    /\ Declared.user_security_group_list = {"web"}
    /\ sgRules = {} /\ op.calls = <<>> /\ d.Id = ""

(* The handlers of the resource, and the outcome of the parent lookup of   *)
(* the last one run ("" when it made none).                                *)
ParentOutcome(o) == IF o.lookup = Nil THEN "" ELSE Deref(o.lookup)[3]
IsRuleCall(c) == c[1] \in {"createRule", "deleteRule"}

(* C15: a Read, an Update or a Delete whose lookup of the parent group     *)
(* reports not-found clears the resource's ID, returns no error and makes  *)
(* no createRule or deleteRule call: the backing rules stay as they are.   *)
C15_ParentNotFound ==
    [][(op'.name \in {"Read", "Update", "Delete"} /\ ParentOutcome(op') = "notfound")
       => /\ d'.Id = ""
          /\ op'.err = ""
          /\ \A i \in 1..Len(op'.calls) : ~IsRuleCall(op'.calls[i])
          /\ sgRules' = sgRules /\ nextID' = nextID]_vars

(* C15 witnesses: an Update of a resource with rules, whose parent group   *)
(* is gone, dropped the resource and left the rules.                       *)
C15_Witness ==
    /\ op.name = "Update" /\ ParentOutcome(op) = "notfound"
    /\ d.Id = "" /\ op.err = "" /\ op.calls = <<>>
    /\ Cardinality(sgRules) = 3
    /\ config.ingress # {}

Handlers == {"Create", "Read", "Update", "Delete"}

(* C16: a handler given neither security_group_id nor security_group       *)
(* returns the validation error having made no call to the backing         *)
(* service: no lookup of the parent group, no createRule, no deleteRule.   *)
C16_ValidationFirst ==
    [][(op'.name \in Handlers /\ (op'.by = <<"", "">> \/ op'.err = ErrValidation))
       => /\ op'.err = ErrValidation
          /\ op'.by = <<"", "">>
          /\ op'.lookup = Nil
          /\ op'.calls = <<>>
          /\ sgRules' = sgRules /\ nextID' = nextID]_vars

(* C16 witness: a Create of two ingress blocks that names no parent group. *)
C16_Witness ==
    /\ op.name = "Create" /\ op.by = <<"", "">>
    /\ op.err = ErrValidation /\ op.lookup = Nil /\ op.calls = <<>>
    /\ Cardinality(config.ingress) = 2 /\ d.Id = "" /\ sgRules = {}

(* A call of the log that the backing service refused.                     *)
CallFailed(c) == c[Len(c)] = "failed"

(* C17: in Create, Update and Delete a createRule or deleteRule call that  *)
(* fails is the last call the handler makes, and the handler returns its   *)
(* error without running its Read; no call is made twice.                  *)
C17_FailFast ==
    op.name \in {"Create", "Update", "Delete"} =>
        /\ \A i \in 1..Len(op.calls) :
              (IsRuleCall(op.calls[i]) /\ CallFailed(op.calls[i]))
              => (i = Len(op.calls) /\ op.err = ErrAPI /\ op.readIn = Nil)
        /\ \A i, j \in 1..Len(op.calls) :
              (i < j /\ CallFailed(op.calls[i])) => op.calls[i] # op.calls[j]

(* C17 witness: an Update whose second deleteRule call failed made no      *)
(* third call, although the data holds a block whose rules are to create.  *)
C17_Witness ==
    /\ op.name = "Update" /\ op.err = ErrAPI /\ op.readIn = Nil
    /\ Len(op.calls) = 2
    /\ op.calls[1][1] = "deleteRule" /\ op.calls[1][4] = "ok"
    /\ op.calls[2][1] = "deleteRule" /\ op.calls[2][4] = "failed"
    /\ \E b \in d.ingress : b.ids = {} /\ b.ports # {}

(* The blocks of a direction that the state and the new declaration both  *)
(* hold, those only the state holds, and those only the declaration holds. *)
InBoth(fd) == {o \in d[fd] : \E c \in config'[fd] : hashKey(c) = hashKey(o)}
OnlyOld(fd) == d[fd] \ InBoth(fd)
OnlyNew(fd) == {c \in config'[fd] : \A o \in d[fd] : hashKey(c) # hashKey(o)}

(* The rules a declared block stands for, as the service stores them but   *)
(* for their ID.                                                           *)
RulesOf(fd, c) ==
    {[securityGroupRulesToAdd(registry, {}, c).rules[i]
         EXCEPT !.FlowDirection = Ptr(fd)] :
        i \in 1..Len(securityGroupRulesToAdd(registry, {}, c).rules)}

(* A call of the log of Update is about a block that only the state holds  *)
(* (a delete) or that only the declaration holds (a create).               *)
CallInFrame(c) ==
    IF c[1] = "deleteRule"
    THEN c[2] \in {BackingID(id) : id \in UNION {o.ids : o \in OnlyOld(c[3])}}
    ELSE CallFailed(c)
         \/ \E r \in sgRules' \ sgRules : \E b \in OnlyNew(c[3]) :
               /\ r.ID = Ptr(c[2])
               /\ [r EXCEPT !.ID = Nil] \in RulesOf(c[3], b)

(* C20: the calls of an Update come ingress first and egress after, in a   *)
(* direction every deleteRule before any createRule, and each is about a   *)
(* block of (old minus new) or of (new minus old): none is about a block   *)
(* that old and new both hold, nor about a direction that did not change.  *)
C20_UpdateOrder ==
    [][op'.name = "Update" =>
        /\ \A i, j \in 1..Len(op'.calls) :
              i < j => /\ ~(op'.calls[i][3] = "egress" /\ op'.calls[j][3] = "ingress")
                       /\ ~(/\ op'.calls[i][3] = op'.calls[j][3]
                             /\ op'.calls[i][1] = "createRule"
                             /\ op'.calls[j][1] = "deleteRule")
        /\ \A i \in 1..Len(op'.calls) : CallInFrame(op'.calls[i])]_vars

(* C20 witness: an Update that removed an ingress block, created another   *)
(* and created an egress block, next to an ingress block it left alone.    *)
C20_Witness ==
    /\ op.name = "Update" /\ op.err = ""
    /\ \E i, j, k \in 1..Len(op.calls) :
          /\ i < j /\ j < k
          /\ op.calls[i][1] = "deleteRule" /\ op.calls[i][3] = "ingress"
          /\ op.calls[j][1] = "createRule" /\ op.calls[j][3] = "ingress"
          /\ op.calls[k][1] = "createRule" /\ op.calls[k][3] = "egress"
    /\ \E b \in d.ingress :
          /\ b.ids # {}
          /\ \A id \in b.ids : \A i \in 1..Len(op.calls) : op.calls[i][2] # BackingID(id)

(* The identifiers the state records, each with its direction and block,   *)
(* and the deleteRule calls of the log that name a backing ID.             *)
RecordedTriples ==
    {<<fd, b, id>> : fd \in Directions, b \in d.ingress \cup d.egress, id \in RecordedIds}
TrackedIds == {t \in RecordedTriples : t[2] \in d[t[1]] /\ t[3] \in t[2].ids}
DeletesOf(calls, x) ==
    {i \in 1..Len(calls) : calls[i][1] = "deleteRule" /\ calls[i][2] = x}

(* C21: a Delete that finds the parent group and returns no error has made *)
(* one deleteRule call for each identifier of each ingress and each egress *)
(* block, with the backing ID the identifier begins with, and no other     *)
(* call.                                                                   *)
C21_DeleteComplete ==
    [][(op'.name = "Delete" /\ op'.err = "" /\ ParentOutcome(op') = "ok")
       => /\ \A t \in TrackedIds :
                Cardinality(DeletesOf(op'.calls, BackingID(t[3]))) =
                Cardinality({u \in TrackedIds : BackingID(u[3]) = BackingID(t[3])})
          /\ Len(op'.calls) = Cardinality(TrackedIds)
          /\ \A i \in 1..Len(op'.calls) : op'.calls[i][1] = "deleteRule"]_vars


-----------------------------------------------------------------------------
(* The state upgrades (lines 177-346). The raw state is a map from         *)
(* attribute names to values; ingress and egress, where present, are lists *)
(* of rules, each a map from attribute names to values.                    *)

StateRuleKeys ==
    {"cidr_list", "description", "icmp_code", "icmp_type", "ids", "ports",
     "protocol", "user_security_group_list"}

(* The zero value of a field of stateSecurityGroupRule (lines 178-187):    *)
(* the empty string, the nil slice, the nil pointer.                       *)
zeroValue(k) == IF k \in {"description", "protocol"} THEN "" ELSE <<>>

(* json.Unmarshal into the struct: a key that is absent leaves the zero    *)
(* value of its field.                                                     *)
newStateSecurityGroupRuleFromInterface(rawStatePart) ==
    [k \in StateRuleKeys |->
        IF k \in DOMAIN rawStatePart THEN rawStatePart[k] ELSE zeroValue(k)]

(* json.Marshal of the struct: every field but description is omitempty,   *)
(* so a field holding its zero value leaves no key.                        *)
toInterface(r) ==
    [k \in {x \in StateRuleKeys : x = "description" \/ r[x] # zeroValue(x)} |-> r[k]]

HasSuffix(s, p) == Len(s) >= Len(p) /\ SubSeq(s, Len(s) - Len(p) + 1, Len(s)) = p

RECURSIVE TrailingDigits(_)
TrailingDigits(s) ==
    IF s = "" \/ DigitValue(CharAt(s, Len(s))) < 0 THEN 0
    ELSE 1 + TrailingDigits(SubSeq(s, 1, Len(s) - 1))

LowerLetters ==
    {"a", "b", "c", "d", "e", "f", "g", "h", "i", "j", "k", "l", "m", "n", "o",
     "p", "q", "r", "s", "t", "u", "v", "w", "x", "y", "z"}

(* 36 characters of 0-9, a-z and "-", then "_", at the start of s.         *)
matchesIDPrefix(s) ==
    /\ Len(s) >= 37
    /\ \A i \in 1..36 :
          \/ DigitValue(CharAt(s, i)) >= 0
          \/ CharAt(s, i) \in LowerLetters
          \/ CharAt(s, i) = "-"
    /\ CharAt(s, 37) = "_"

(* Where the final "_0", or "_0-" and digits, of s starts, s ending in k   *)
(* digits; 0 if s does not end that way.                                   *)
zeroPortAt(s, k) ==
    IF HasSuffix(s, "_0") THEN Len(s) - 1
    ELSE IF k >= 1 /\ HasSuffix(SubSeq(s, 1, Len(s) - k), "_0-") THEN Len(s) - k - 2
    ELSE 0

(* ruleIDRegex of the version-0 upgrade (line 229): 36 characters of 0-9,  *)
(* a-z and "-", "_", tcp or udp, "_", any text, "_0", and at the end "-"   *)
(* and digits or nothing. The submatches <<whole, 1, 2>>, where 1 is all   *)
(* that precedes "_0" and 2 what follows it, or <<>> when s does not match.*)
ruleIDSubmatchV0(s, at) ==
    IF /\ matchesIDPrefix(s)
       /\ SubSeq(s, 38, 41) \in {"tcp_", "udp_"}
       /\ at >= 42
    THEN <<s, SubSeq(s, 1, at - 1), SubSeq(s, at + 2, Len(s))>>
    ELSE <<>>
ruleIDRegexV0(s) == ruleIDSubmatchV0(s, zeroPortAt(s, TrailingDigits(s)))

(* ruleIDRegex.ReplaceAllString (line 243): submatch 1, "_1", submatch 2.  *)
replaceRuleIDWith(ruleID, m) == IF m = <<>> THEN ruleID ELSE m[2] \o "_1" \o m[3]
replaceRuleID(ruleID) == replaceRuleIDWith(ruleID, ruleIDRegexV0(ruleID))

(* rulePortsRegex (line 230): "0-" and digits, the digits being submatch 1.*)
rulePortsRegex(s) ==
    IF HasPrefix(s, "0-") /\ IsDigits(SubSeq(s, 3, Len(s)))
    THEN <<s, SubSeq(s, 3, Len(s))>> ELSE <<>>

(* rulePortsRegex.ReplaceAllString (line 252): "1-" and submatch 1.        *)
replacePortsWith(ports, m) == IF m = <<>> THEN ports ELSE "1-" \o m[2]
replacePorts(ports) == replacePortsWith(ports, rulePortsRegex(ports))

(* The body of the loop over the rules (lines 236-270): the rule read into *)
(* the struct, the struct with ids and ports rewritten, and the list       *)
(* element that results: the struct written back if anything changed, the  *)
(* raw rule otherwise.                                                     *)
patchedRule(raw, rule, new) == IF new # rule THEN toInterface(new) ELSE raw

fixedRuleV0(rule) ==
    [rule EXCEPT !.ids = [i \in 1..Len(rule.ids) |-> replaceRuleID(rule.ids[i])],
                 !.ports = [i \in 1..Len(rule.ports) |-> replacePorts(rule.ports[i])]]

upgradeRuleStructV0(raw, rule) == patchedRule(raw, rule, fixedRuleV0(rule))
upgradeRuleV0(raw) == upgradeRuleStructV0(raw, newStateSecurityGroupRuleFromInterface(raw))

(* resourceSecurityGroupRulesStateUpgradeV0 (lines 222-282). A direction   *)
(* that is absent is skipped; the states of this resource hold lists under *)
(* ingress and egress, so the error of line 272 is never returned.         *)
resourceSecurityGroupRulesStateUpgradeV0(rawState) ==
    [k \in DOMAIN rawState |->
        IF k \in {"ingress", "egress"}
        THEN [i \in 1..Len(rawState[k]) |-> upgradeRuleV0(rawState[k][i])]
        ELSE rawState[k]]

RECURSIVE LeadingLetters(_)
LeadingLetters(s) ==
    IF s = "" \/ Head(s) \notin LowerLetters THEN 0 ELSE 1 + LeadingLetters(Tail(s))

(* Where submatch 1 of the version-1 ruleIDRegex ends in s, whose text     *)
(* from position 38 starts with n letters a-z: after the letters, "6" or   *)
(* nothing, and "_"; 0 if s does not go on that way.                       *)
protocolEnd(s, n) ==
    IF n = 0 THEN 0
    ELSE IF CharAt(s, 38 + n) = "_" THEN 38 + n
    ELSE IF SubSeq(s, 38 + n, 39 + n) = "6_" THEN 39 + n
    ELSE 0

(* ruleIDRegex of the version-1 upgrade (line 291): 36 characters of 0-9,  *)
(* a-z and "-", "_", letters a-z, "6" or nothing, "_" (submatch 1), any    *)
(* text (submatch 2), and at the end "_", digits, "-", digits or nothing   *)
(* (submatch 3). Submatch 2 is greedy and submatch 3 may be empty, so      *)
(* submatch 2 takes the text to the end and submatch 3 is empty.           *)
(* FindStringSubmatch: <<whole, 1, 2, 3>>, or <<>> when s does not match.  *)
ruleIDSubmatchV1(s, end) ==
    IF matchesIDPrefix(s) /\ end > 0
    THEN <<s, SubSeq(s, 1, end), SubSeq(s, end + 1, Len(s)), "">>
    ELSE <<>>
ruleIDRegexV1(s) == ruleIDSubmatchV1(s, protocolEnd(s, LeadingLetters(SubSeq(s, 38, Len(s)))))

(* Lines 307-314.                                                          *)
lowerRuleIDWith(ruleID, matches) ==
    IF Len(matches) = 4 THEN matches[2] \o ToLower(matches[3]) \o matches[4] ELSE ruleID
lowerRuleID(ruleID) == lowerRuleIDWith(ruleID, ruleIDRegexV1(ruleID))

(* A faulty fixedRuleV1, which C23 must tell apart: the names of           *)
(* user_security_group_list are left as they are.                          *)
fixedRuleV1IDsOnly(rule) ==
    [rule EXCEPT !.ids = [i \in 1..Len(rule.ids) |-> lowerRuleID(rule.ids[i])]]

(* Lines 305-324: the struct with ids and user_security_group_list         *)
(* rewritten.                                                              *)
fixedRuleV1(rule) ==
    [rule EXCEPT
        !.ids = [i \in 1..Len(rule.ids) |-> lowerRuleID(rule.ids[i])],
        !.user_security_group_list =
            [i \in 1..Len(rule.user_security_group_list) |->
                ToLower(rule.user_security_group_list[i])]]

upgradeRuleStructV1(raw, rule) == patchedRule(raw, rule, fixedRuleV1(rule))
upgradeRuleV1(raw) == upgradeRuleStructV1(raw, newStateSecurityGroupRuleFromInterface(raw))

(* resourceSecurityGroupRulesStateUpgradeV1 (lines 284-346), with the      *)
(* directions handled as in the version-0 upgrade.                         *)
resourceSecurityGroupRulesStateUpgradeV1(rawState) ==
    [k \in DOMAIN rawState |->
        IF k \in {"ingress", "egress"}
        THEN [i \in 1..Len(rawState[k]) |-> upgradeRuleV1(rawState[k][i])]
        ELSE rawState[k]]

-----------------------------------------------------------------------------
(* The state upgrades on their own: Init draws a raw state as an earlier   *)
(* version of the provider stored it, the actions apply the upgrade.       *)

(* The identifiers of the backing service: 36 characters.                  *)
RuleUUID(n) == "00000000-0000-4000-8000-00000000000" \o Itoa(n)

rangeText(couple) == Itoa(couple[1]) \o "-" \o Itoa(couple[2])

Distinct(l) == \A i, j \in 1..Len(l) : i # j => l[i] # l[j]
ListsOver(S, n) == {l \in UNION {[1..m -> S] : m \in 1..n} : Distinct(l)}

(* A TCP or UDP rule of a stored state with one peer: one identifier per   *)
(* ports entry, in the format of ruleToID (lines 793-800), the backing     *)
(* service returning the name as given.                                    *)
StoredPortRule(protocol, peer, ports, first) ==
    [cidr_list |-> IF peer \in CIDRs THEN <<peer>> ELSE <<>>,
     description |-> "",
     icmp_code |-> Nil,
     icmp_type |-> Nil,
     ids |-> [i \in 1..Len(ports) |->
                 RuleUUID(first + i) \o "_" \o protocol \o "_" \o peer \o "_"
                     \o rangeText(portCouple(ports[i]))],
     ports |-> ports,
     protocol |-> ToUpper(protocol),
     user_security_group_list |-> IF peer \in CIDRs THEN <<>> ELSE <<peer>>]

(* An ICMP rule (lines 772-779) and a rule of another protocol (lines      *)
(* 801-807) of a stored state.                                             *)
StoredICMPRule(protocol, peer, n) ==
    [cidr_list |-> IF peer \in CIDRs THEN <<peer>> ELSE <<>>,
     description |-> "",
     icmp_code |-> Ptr(0),
     icmp_type |-> Ptr(8),
     ids |-> <<RuleUUID(n) \o "_" \o ToLower(protocol) \o "_8:0">>,
     ports |-> <<>>,
     protocol |-> protocol,
     user_security_group_list |-> IF peer \in CIDRs THEN <<>> ELSE <<peer>>]

StoredOtherRule(protocol, peer, n) ==
    [cidr_list |-> IF peer \in CIDRs THEN <<peer>> ELSE <<>>,
     description |-> "",
     icmp_code |-> Nil,
     icmp_type |-> Nil,
     ids |-> <<RuleUUID(n) \o "_" \o protocol \o "_" \o peer>>,
     ports |-> <<>>,
     protocol |-> ToUpper(protocol),
     user_security_group_list |-> IF peer \in CIDRs THEN <<>> ELSE <<peer>>]

(* The ports entries as Read writes them (lines 734-738) and as a          *)
(* configuration spells them: start port 0 alone, 0 to 0, 0 to 1024, and   *)
(* ranges that do not start at 0.                                          *)
V0PortEntries == {"0", "0-0", "0-1024", "80", "1-1024"}
V0Peers == {"10.0.0.0/8", "web_0"}

V0Rules ==
    {StoredPortRule(p, x, l, 0) :
        p \in {"tcp", "udp"}, x \in V0Peers, l \in ListsOver(V0PortEntries, MaxPorts)}
    \cup {StoredICMPRule("ICMP", x, 1) : x \in V0Peers}
    \cup {StoredOtherRule("all", x, 1) : x \in V0Peers}

V0Ingress == {<<r>> : r \in V0Rules} \cup {<<r, StoredICMPRule("ICMP", "10.0.0.0/8", 9)>> : r \in V0Rules}
V0Egress == {<<StoredPortRule("udp", "10.0.0.0/8", <<"0-1024", "53">>, 6)>>,
             <<StoredOtherRule("all", "web_0", 6)>>}

V0States ==
    {[id |-> "default", ingress |-> i] : i \in V0Ingress}
    \cup {[id |-> "default", ingress |-> i, egress |-> e] : i \in V0Ingress, e \in V0Egress}

(* The rules of a state of version 1: groups named in lower case and in    *)
(* mixed case, one or two peers a rule, one identifier per peer and ports  *)
(* entry; the backing service names the protocol in lower case.            *)
V1Names == {"web", "Web", "DB_Prod"}
V1Peers == ListsOver(V1Names \cup {"10.0.0.0/8"}, 2)
V1PortLists == {<<"80">>, <<"80", "8000-8100">>}

groupsOf(peers) == SelectSeq(peers, LAMBDA x : x \notin CIDRs)
cidrsOf(peers) == SelectSeq(peers, LAMBDA x : x \in CIDRs)

StoredPortRules(protocol, peers, ports) ==
    [StoredPortRule(protocol, peers[1], ports, 0) EXCEPT
        !.cidr_list = cidrsOf(peers),
        !.user_security_group_list = groupsOf(peers),
        !.ids = Flatten([i \in 1..Len(peers) |->
                    StoredPortRule(protocol, peers[i], ports, 2 * i).ids])]

StoredOtherRules(protocol, peers) ==
    [StoredOtherRule(protocol, peers[1], 1) EXCEPT
        !.cidr_list = cidrsOf(peers),
        !.user_security_group_list = groupsOf(peers),
        !.ids = Flatten([i \in 1..Len(peers) |-> StoredOtherRule(protocol, peers[i], i).ids])]

V1Rules ==
    {StoredPortRules(p, x, l) : p \in {"tcp", "udp"}, x \in V1Peers, l \in V1PortLists}
    \cup {StoredOtherRules(p, x) : p \in {"esp", "ah"}, x \in V1Peers}
    \cup {StoredICMPRule(p, x, 1) : p \in {"ICMP", "ICMPv6"}, x \in V1Names}

V1Egress == {<<StoredPortRules("tcp", <<"Web">>, <<"443">>)>>,
             <<StoredICMPRule("ICMPv6", "web", 7)>>}

V1States ==
    {[id |-> "default", ingress |-> <<r>>] : r \in V1Rules}
    \cup {[id |-> "default", ingress |-> <<r>>, egress |-> e] : r \in V1Rules, e \in V1Egress}

InitUpgrade ==
    /\ d = Absent
    /\ config = NoConfig
    /\ sgRules = {}
    /\ nextID = 1
    /\ op = NoOp
    /\ updates = 0
    /\ registry = LowerRegistry
    /\ \/ fn \in {[kind |-> "v0", in |-> s, out |-> Nil] : s \in V0States}
       \/ fn \in {[kind |-> "v1", in |-> s, out |-> Nil, again |-> Nil] : s \in V1States}

UpgradeV0 ==
    /\ fn.kind = "v0"
    /\ fn.out = Nil
    /\ fn' = [fn EXCEPT !.out = Ptr(resourceSecurityGroupRulesStateUpgradeV0(fn.in))]
    /\ UNCHANGED <<d, config, sgRules, nextID, registry, op, updates>>

UpgradeV1 ==
    /\ fn.kind = "v1"
    /\ fn.out = Nil
    /\ fn' = [fn EXCEPT !.out = Ptr(resourceSecurityGroupRulesStateUpgradeV1(fn.in))]
    /\ UNCHANGED <<d, config, sgRules, nextID, registry, op, updates>>

(* The upgrade applied to the state it returned.                           *)
UpgradeV1Again ==
    /\ fn.kind = "v1"
    /\ fn.out # Nil
    /\ fn.again = Nil
    /\ fn' = [fn EXCEPT !.again = Ptr(resourceSecurityGroupRulesStateUpgradeV1(Deref(fn.out)))]
    /\ UNCHANGED <<d, config, sgRules, nextID, registry, op, updates>>

NextUpgrade == UpgradeV0 \/ UpgradeV1 \/ UpgradeV1Again

SpecUpgrade == InitUpgrade /\ [][NextUpgrade]_vars

-----------------------------------------------------------------------------
(* The rules of a raw state, each as <<direction, index>>, and the struct  *)
(* of such a rule.                                                         *)
RulesIn(rawState) ==
    {<<k, i>> : k \in Directions \cap DOMAIN rawState, i \in 1..2}
RulePlaces(rawState) == {x \in RulesIn(rawState) : x[2] <= Len(rawState[x[1]])}
RuleAt(rawState, x) == newStateSecurityGroupRuleFromInterface(rawState[x[1]][x[2]])
Entries(l) == {l[i] : i \in 1..Len(l)}

Last(l) == l[Len(l)]
(* The port part of a TCP or UDP identifier, and its start port.           *)
PortPart(id) == Last(Split(id, "_"))
StartPart(id) == Split(PortPart(id), "-")[1]

IsPortRule(rule) == ToLower(rule.protocol) \in {"tcp", "udp"}
(* ids and ports of a rule agree: every identifier carries the range of an *)
(* entry of ports and every entry the range of an identifier.              *)
Agreed(rule) ==
    {PortPart(id) : id \in Entries(rule.ids)} =
    {rangeText(portCouple(p)) : p \in Entries(rule.ports)}
StartsAtZero(rule) ==
    \/ \E p \in Entries(rule.ports) : portCouple(p)[1] = 0
    \/ IsPortRule(rule) /\ \E id \in Entries(rule.ids) : StartPart(id) = "0"
ZeroRangeForm(p) == HasPrefix(p, "0-") /\ IsDigits(SubSeq(p, 3, Len(p)))

V0NoZeroStart(before, after) ==
    /\ \A id \in Entries(after.ids) : StartPart(id) # "0"
    /\ \A p \in Entries(after.ports) : ~ZeroRangeForm(p)
V0Corresponds(before, after) ==
    \A i \in 1..Len(after.ids) :
        after.ids[i] # before.ids[i]
        => PortPart(after.ids[i]) \in {rangeText(portCouple(p)) : p \in Entries(after.ports)}
V0Kept(before, after) == after.ids = before.ids /\ after.ports = before.ports

V0Repaired(before, after) ==
    /\ (IsPortRule(before) /\ Agreed(before))
          => V0NoZeroStart(before, after) /\ V0Corresponds(before, after)
    /\ ~StartsAtZero(before) => V0Kept(before, after)

V0Done == fn.kind = "v0" /\ fn.out # Nil

(* C22: after the version-0 upgrade, for every TCP or UDP rule whose ids   *)
(* and ports agreed, no identifier has a port part starting at 0, no ports *)
(* entry has the form 0-N, and the port range of every rewritten           *)
(* identifier is the range of an entry of the same rule's ports; ids and   *)
(* ports of a rule with no start port 0, ICMP and other protocols          *)
(* included, are as they were.                                             *)
C22_V0Repair ==
    V0Done => \A x \in RulePlaces(fn.in) :
                  V0Repaired(RuleAt(fn.in, x), RuleAt(Deref(fn.out), x))

-----------------------------------------------------------------------------
(* The parts of an identifier: the backing ID, the protocol, then for TCP  *)
(* and UDP the peer and the port range, for ICMP type and code, for any    *)
(* other protocol the peer.                                                *)
ProtocolPart(id) == Split(id, "_")[2]
IsPortID(id) == ProtocolPart(id) \in {"tcp", "udp"}
IsICMPID(id) == HasPrefix(ProtocolPart(id), "icmp")
PeerStart(id) == Len(BackingID(id)) + Len(ProtocolPart(id)) + 3
PeerPart(id) ==
    IF IsICMPID(id) THEN ""
    ELSE IF IsPortID(id) THEN SubSeq(id, PeerStart(id), Len(id) - Len(PortPart(id)) - 1)
    ELSE SubSeq(id, PeerStart(id), Len(id))
TailPart(id) == IF IsICMPID(id) \/ IsPortID(id) THEN PortPart(id) ELSE ""

IsLower(s) == s = ToLower(s)

V1LoweredID(before, after) ==
    /\ BackingID(after) = BackingID(before)
    /\ ProtocolPart(after) = ProtocolPart(before)
    /\ TailPart(after) = TailPart(before)
    /\ IsLower(PeerPart(after))
    /\ PeerPart(after) = ToLower(PeerPart(before))
V1Lowered(before, after) ==
    /\ \A g \in Entries(after.user_security_group_list) : IsLower(g)
    /\ Len(after.ids) = Len(before.ids)
    /\ \A i \in 1..Len(after.ids) : V1LoweredID(before.ids[i], after.ids[i])

V1Done == fn.kind = "v1" /\ fn.out # Nil

(* C23: after the version-1 upgrade every entry of every rule's            *)
(* user_security_group_list and the peer-name part of every identifier of  *)
(* ingress and egress are lower-case, each identifier keeps its backing    *)
(* ID, its protocol part and its port-range part, and the upgrade applied  *)
(* to the upgraded state returns that state.                               *)
C23_V1LowerCase ==
    /\ V1Done => \A x \in RulePlaces(fn.in) :
                     V1Lowered(RuleAt(fn.in, x), RuleAt(Deref(fn.out), x))
    /\ (V1Done /\ fn.again # Nil) => fn.again = fn.out

(* A state with a mixed-case group name in a rule's list and in the peer   *)
(* part of a TCP or UDP identifier, upgraded twice.                        *)
C23_Witness ==
    /\ V1Done
    /\ fn.again # Nil
    /\ Deref(fn.out) # fn.in
    /\ \E x \in RulePlaces(fn.in) :
          /\ \E g \in Entries(RuleAt(fn.in, x).user_security_group_list) : ~IsLower(g)
          /\ \E id \in Entries(RuleAt(fn.in, x).ids) : IsPortID(id) /\ ~IsLower(PeerPart(id))

-----------------------------------------------------------------------------
(* The network resource (network_resource.go). Addresses and masks are     *)
(* sequences of bytes, as net.IP and net.IPMask are.                       *)

RECURSIVE BitAnd(_, _, _)
BitAnd(a, b, n) ==
    IF n = 0 THEN 0 ELSE (a % 2) * (b % 2) + 2 * BitAnd(a \div 2, b \div 2, n - 1)

(* The operators of uint8: a & b, ^a and a + b, which wraps around.        *)
And8(a, b) == BitAnd(a, b, 8)
Not8(a) == 255 - a
Add8(a, b) == (a + b) % 256

Zeros(n) == [i \in 1..n |-> 0]
v4InV6Prefix == Zeros(10) \o <<255, 255>>

(* net.IPv4(a, b, c, d): the 16-byte form of an IPv4 address.              *)
IPv4(a, b, c, e) == v4InV6Prefix \o <<a, b, c, e>>
IPv4zero == IPv4(0, 0, 0, 0)

(* net.IP.To4: the 4-byte form, nil if ip is not an IPv4 address.          *)
To4(ip) ==
    IF Len(ip) = 4 THEN ip
    ELSE IF Len(ip) = 16 /\ SubSeq(ip, 1, 12) = v4InV6Prefix THEN SubSeq(ip, 13, 16)
    ELSE Nil

(* net.CIDRMask(ones, bits).                                               *)
CIDRMask(ones, bits) == [i \in 1..(bits \div 8) |-> 256 - Pow2(8 - OctetBits(ones, i))]

(* A faulty IPMask, which C24 must tell apart: the address is returned     *)
(* with its host bits.                                                     *)
IPUnmasked(ip, mask) ==
    IF Len(mask) = 4 /\ Len(ip) = 16 /\ SubSeq(ip, 1, 12) = v4InV6Prefix
    THEN SubSeq(ip, 13, 16) ELSE ip

(* net.IP.Mask: a 4-byte mask is applied to the 4-byte form of an IPv4     *)
(* address; nil if the lengths differ.                                     *)
maskBytes(ip, mask) ==
    IF Len(ip) # Len(mask) THEN Nil ELSE [i \in 1..Len(ip) |-> And8(ip[i], mask[i])]
allFF(mask) == \A i \in 1..Len(mask) : mask[i] = 255
maskOf(ip, mask) ==
    IF Len(mask) = 16 /\ Len(ip) = 4 /\ allFF(SubSeq(mask, 1, 12)) THEN SubSeq(mask, 13, 16)
    ELSE mask
IPMask(ip, mask) ==
    maskBytes(IF Len(mask) = 4 /\ Len(ip) = 16 /\ SubSeq(ip, 1, 12) = v4InV6Prefix
              THEN SubSeq(ip, 13, 16) ELSE ip,
              maskOf(ip, mask))

(* net.IP.String of an address: dotted decimal for IPv4; the IPv6 form is  *)
(* never printed by this resource's handlers on the inputs drawn here.     *)
IPString(ip) ==
    IF To4(ip) = Nil THEN "?"
    ELSE Itoa(To4(ip)[1]) \o "." \o Itoa(To4(ip)[2]) \o "." \o Itoa(To4(ip)[3])
             \o "." \o Itoa(To4(ip)[4])

(* The decimal text of an octet or of a prefix length: digits, no leading  *)
(* zero, at most three of them.                                            *)
IsDecimal(s) == IsDigits(s) /\ Len(s) <= 3 /\ (Len(s) = 1 \/ Head(s) # "0")

(* The parser of IPv4 addresses: nil if s is not dotted decimal.           *)
parseIPv4Fields(f) ==
    IF Len(f) = 4 /\ \A i \in 1..4 : IsDecimal(f[i]) /\ DigitsValue(f[i], 0) <= 255
    THEN IPv4(DigitsValue(f[1], 0), DigitsValue(f[2], 0), DigitsValue(f[3], 0),
              DigitsValue(f[4], 0))
    ELSE Nil
parseIPv4(s) == parseIPv4Fields(Split(s, "."))

HexValue(c) ==
    CASE c = "a" -> 10 [] c = "b" -> 11 [] c = "c" -> 12 [] c = "d" -> 13
      [] c = "e" -> 14 [] c = "f" -> 15 [] OTHER -> DigitValue(c)
IsHex(s) == s # "" /\ Len(s) <= 4 /\ \A i \in 1..Len(s) : HexValue(CharAt(s, i)) >= 0
RECURSIVE HexDigitsValue(_, _)
HexDigitsValue(s, acc) ==
    IF s = "" THEN acc ELSE HexDigitsValue(Tail(s), acc * 16 + HexValue(Head(s)))
groupBytes(g) == <<HexDigitsValue(g, 0) \div 256, HexDigitsValue(g, 0) % 256>>
groupsBytes(gs) == Flatten([i \in 1..Len(gs) |-> groupBytes(gs[i])])
groupsOfText(s) == IF s = "" THEN <<>> ELSE Split(s, ":")

(* Position of the first "::" of s, 0 if there is none.                    *)
RECURSIVE EllipsisFrom(_, _)
EllipsisFrom(s, i) ==
    IF i >= Len(s) THEN 0
    ELSE IF SubSeq(s, i, i + 1) = "::" THEN i ELSE EllipsisFrom(s, i + 1)

(* The parser of IPv6 addresses in lower-case hexadecimal groups with at   *)
(* most one "::": nil if s is not of that form.                            *)
ellipsisIPv6(left, right) ==
    IF /\ Len(left) + Len(right) <= 7
       /\ \A i \in 1..Len(left) : IsHex(left[i])
       /\ \A i \in 1..Len(right) : IsHex(right[i])
    THEN groupsBytes(left) \o Zeros(2 * (8 - Len(left) - Len(right))) \o groupsBytes(right)
    ELSE Nil
fullIPv6(gs) ==
    IF Len(gs) = 8 /\ \A i \in 1..8 : IsHex(gs[i]) THEN groupsBytes(gs) ELSE Nil
parseIPv6At(s, e) ==
    IF e = 0 THEN fullIPv6(Split(s, ":"))
    ELSE ellipsisIPv6(groupsOfText(SubSeq(s, 1, e - 1)),
                      groupsOfText(SubSeq(s, e + 2, Len(s))))
parseIPv6(s) == parseIPv6At(s, EllipsisFrom(s, 1))

(* net.ParseCIDR: the address, and the network with its mask, whose length *)
(* is that of the address family.                                          *)
errParseCIDR(s) == [err |-> "invalid CIDR address: " \o s, ip |-> Nil, ipnet |-> Nil]
parsedCIDR(s, ip, iplen, n) ==
    IF n > 8 * iplen THEN errParseCIDR(s)
    ELSE [err |-> "", ip |-> ip,
          ipnet |-> [IP |-> IPMask(ip, CIDRMask(n, 8 * iplen)),
                     Mask |-> CIDRMask(n, 8 * iplen)]]
parseCIDRAddr(s, addr, mask) ==
    IF ~IsDecimal(mask) THEN errParseCIDR(s)
    ELSE IF parseIPv4(addr) # Nil THEN parsedCIDR(s, parseIPv4(addr), 4, DigitsValue(mask, 0))
    ELSE IF parseIPv6(addr) # Nil THEN parsedCIDR(s, parseIPv6(addr), 16, DigitsValue(mask, 0))
    ELSE errParseCIDR(s)
netParseCIDRParts(s, parts) ==
    IF Len(parts) # 2 THEN errParseCIDR(s) ELSE parseCIDRAddr(s, parts[1], parts[2])
netParseCIDR(s) == netParseCIDRParts(s, SplitN2(s, "/"))

(* The result of a handler of the network resource: the resource data, the *)
(* error returned, the requests sent.                                      *)
NetResult(data, err, calls) == [d |-> data, err |-> err, calls |-> calls]

(* applyNetwork (lines 231-245).                                           *)
applyNetwork(data, network) ==
    [data EXCEPT !.Id = network.ID,
                 !.name = network.Name,
                 !.display_text = network.DisplayText,
                 !.network_offering = network.NetworkOfferingName,
                 !.zone = network.ZoneName,
                 !.cidr = network.Cidr,
                 !.gateway = IPString(network.Gateway),
                 !.netmask = IPString(network.Netmask)]

(* readNetwork (lines 148-165); list is what the ListNetworks request      *)
(* meets: the network, no network, an error that handleNotFound passes on, *)
(* or one it takes for the absence of the network.                         *)
readNetwork(data, calls, list, network) ==
    CASE list = "failed" -> NetResult(data, ErrAPI, calls \o <<<<"listNetworks", data.Id>>>>)
      [] list = "gone" ->
            NetResult([data EXCEPT !.Id = ""], "", calls \o <<<<"listNetworks", data.Id>>>>)
      [] list = "none" ->
            NetResult(data, "No network found for ID: " \o data.Id,
                      calls \o <<<<"listNetworks", data.Id>>>>)
      [] OTHER ->
            NetResult(applyNetwork(data, network), "", calls \o <<<<"listNetworks", data.Id>>>>)

(* The network the backing service holds after a CreateNetwork request.    *)
createdNetwork(data, req) ==
    [ID |-> "n1", Name |-> req.Name, DisplayText |-> req.DisplayText,
     NetworkOfferingName |-> data.network_offering, ZoneName |-> data.zone,
     Cidr |-> data.cidr, Gateway |-> req.Gateway, Netmask |-> req.Netmask]

(* Lines 128-145.                                                          *)
createRequest(data, displayText, netmask, gateway) ==
    [Name |-> data.name, DisplayText |-> displayText,
     NetworkOfferingID |-> "o1", ZoneID |-> "z1",
     Netmask |-> netmask, Gateway |-> gateway]
createSent(data, req, env) ==
    IF env.create = "failed" THEN NetResult(data, ErrAPI, <<<<"createNetwork", req>>>>)
    ELSE readNetwork([data EXCEPT !.Id = "n1"], <<<<"createNetwork", req>>>>, env.list,
                     createdNetwork(data, req))
createSend(data, displayText, netmask, gateway, env) ==
    createSent(data, createRequest(data, displayText, netmask, gateway), env)

(* Lines 111-125: the subnet address, the netmask and the last address.    *)
gatewayOf(subnetIP, mask) ==
    IPv4(Add8(subnetIP[1], Not8(mask[1])), Add8(subnetIP[2], Not8(mask[2])),
         Add8(subnetIP[3], Not8(mask[3])), Add8(subnetIP[4], Not8(mask[4])))
createWithSubnet(data, displayText, subnetIP, mask, env) ==
    createSend(data, displayText, IPv4(mask[1], mask[2], mask[3], mask[4]),
               gatewayOf(subnetIP, mask), env)

(* Lines 100-126.                                                          *)
createParsed(data, displayText, c, parsed, env) ==
    IF parsed.err # "" THEN NetResult(data, parsed.err, <<>>)
    ELSE IF To4(parsed.ip) = Nil
    THEN NetResult(data, "Provided cidr " \o c \o " is not an IPv4 address", <<>>)
    ELSE createWithSubnet(data, displayText, IPMask(parsed.ip, parsed.ipnet.Mask),
                          parsed.ipnet.Mask, env)
createWithCIDR(data, displayText, env) ==
    IF data.cidr # ""
    THEN createParsed(data, displayText, data.cidr, netParseCIDR(data.cidr), env)
    ELSE createSend(data, displayText, IPv4zero, IPv4zero, env)

(* createNetwork (lines 72-146); env holds what the lookups of the zone    *)
(* and of the offering and the two requests meet.                          *)
createNetwork(data, env) ==
    IF env.zone = "failed" THEN NetResult(data, ErrNotFound, <<>>)
    ELSE IF env.offering = "failed" THEN NetResult(data, ErrNotFound, <<>>)
    ELSE IF env.offering = "ranges"
    THEN NetResult(data, "SpecifyIPRanges is not yet supported.", <<>>)
    ELSE createWithCIDR(data, IF data.display_text = "" THEN data.name ELSE data.display_text,
                        env)

-----------------------------------------------------------------------------
(* createNetwork on its own: Init draws the configuration of a network,    *)
(* with no cidr, with an IPv4 cidr of any prefix length (with or without   *)
(* host bits in the address) or with an IPv6 cidr that the schema accepts  *)
(* (line 45); the action runs the handler against a backing service whose  *)
(* lookups and requests succeed or fail.                                   *)
NetOctets == {0, 10, 129, 255}
NetPrefixes == 0..32
Dotted(a, b, c, e) == Itoa(a) \o "." \o Itoa(b) \o "." \o Itoa(c) \o "." \o Itoa(e)
NetIPv4CIDRs ==
    {Dotted(a, b, c, e) \o "/" \o Itoa(n) :
        a \in NetOctets, b \in NetOctets, c \in NetOctets, e \in NetOctets, n \in NetPrefixes}
NetIPv6CIDRs == {"2001:db8::/32", "::/0", "fe80::/10"}
NetCIDRs == {""} \cup NetIPv4CIDRs \cup NetIPv6CIDRs

NetData(cidr, displayText) ==
    [Id |-> "", name |-> "net", display_text |-> displayText, network_offering |-> "privnet",
     zone |-> "ch-gva-2", cidr |-> cidr, netmask |-> "", gateway |-> ""]

NetOK == [zone |-> "ok", offering |-> "ok", create |-> "ok", list |-> "ok"]
NetEnvs ==
    {NetOK, [NetOK EXCEPT !.zone = "failed"], [NetOK EXCEPT !.offering = "failed"],
     [NetOK EXCEPT !.offering = "ranges"], [NetOK EXCEPT !.create = "failed"],
     [NetOK EXCEPT !.list = "failed"], [NetOK EXCEPT !.list = "gone"],
     [NetOK EXCEPT !.list = "none"]}

InitNetwork ==
    /\ config = NoConfig
    /\ sgRules = {}
    /\ nextID = 1
    /\ op = NoOp
    /\ updates = 0
    /\ registry = LowerRegistry
    /\ \/ fn \in {[kind |-> "network", in |-> NetData(c, "")] : c \in NetCIDRs}
       \/ fn \in {[kind |-> "network", in |-> NetData(c, "private")] :
                      c \in {"", "10.0.0.0/8"} \cup NetIPv6CIDRs}
    /\ d = fn.in

networkOp(result, env) ==
    [NoOp EXCEPT !.name = "createNetwork", !.err = result.err, !.calls = result.calls,
                 !.lookup = env]

CreateNetwork ==
    /\ op.name = "init"
    /\ \E env \in NetEnvs :
          /\ d' = createNetwork(d, env).d
          /\ op' = networkOp(createNetwork(d, env), env)
    /\ UNCHANGED <<config, sgRules, nextID, registry, fn, updates>>

NextNetwork == CreateNetwork

SpecNetwork == InitNetwork /\ [][NextNetwork]_vars

-----------------------------------------------------------------------------
(* The cidr of the configuration read as text: the octets of the address   *)
(* and the prefix length.                                                  *)
CIDRText == fn.in.cidr
IsIPv4Text == CIDRText \in NetIPv4CIDRs
AddressOctet(i) == DigitsValue(Split(Split(CIDRText, "/")[1], ".")[i], 0)
PrefixLength == DigitsValue(Split(CIDRText, "/")[2], 0)
(* The number of host bits of octet i, the octet of the mask and the octet *)
(* of the subnet address.                                                  *)
RECURSIVE Power2(_)
Power2(n) == IF n = 0 THEN 1 ELSE 2 * Power2(n - 1)
HostBits(i) == 8 - Min(8, Max(0, PrefixLength - 8 * (i - 1)))
MaskOctetOf(i) == 256 - Power2(HostBits(i))
SubnetOctet(i) == AddressOctet(i) - (AddressOctet(i) % Power2(HostBits(i)))
LastOctet(i) == SubnetOctet(i) + Power2(HostBits(i)) - 1

NetDone == fn.kind = "network" /\ op.name = "createNetwork"
CreateRequests == {i \in 1..Len(op.calls) : op.calls[i][1] = "createNetwork"}
PassedLookups == op.lookup.zone = "ok" /\ op.lookup.offering = "ok"

(* C24: createNetwork with an IPv4 cidr sends the mask of the cidr as      *)
(* netmask and the last address of the subnet as gateway, each octet of    *)
(* which is the octet of the subnet address plus the complement of the     *)
(* octet of the mask, a sum that never exceeds 255; with no cidr it sends  *)
(* 0.0.0.0 for both; with a cidr that is not IPv4 it returns an error and  *)
(* sends no create request.                                                *)
C24_GatewayComputation ==
    NetDone =>
        /\ (IsIPv4Text /\ PassedLookups) =>
              /\ CreateRequests = {1}
              /\ \A i \in 1..4 :
                    /\ To4(op.calls[1][2].Netmask)[i] = MaskOctetOf(i)
                    /\ SubnetOctet(i) + (255 - MaskOctetOf(i)) <= 255
                    /\ To4(op.calls[1][2].Gateway)[i] = SubnetOctet(i) + (255 - MaskOctetOf(i))
                    /\ To4(op.calls[1][2].Gateway)[i] = LastOctet(i)
        /\ (CIDRText = "" /\ PassedLookups) =>
              /\ CreateRequests = {1}
              /\ IPString(op.calls[1][2].Netmask) = "0.0.0.0"
              /\ IPString(op.calls[1][2].Gateway) = "0.0.0.0"
        /\ (CIDRText # "" /\ ~IsIPv4Text) => op.err # "" /\ CreateRequests = {}

(* A network created from an IPv4 cidr whose address has host bits in an   *)
(* octet that the mask covers in part.                                     *)
C24_Witness ==
    /\ NetDone
    /\ IsIPv4Text
    /\ op.err = ""
    /\ d.Id = "n1"
    /\ \E i \in 1..4 :
          /\ MaskOctetOf(i) \notin {0, 255}
          /\ SubnetOctet(i) # AddressOctet(i)
          /\ d.gateway # ""
====
